---- MODULE Spec2Model ----
(***************************************************************************)
(* bark-trader: the SmartLossManager decision engine, the part of the      *)
(* HistoricalDataManager it reads and writes, and the risk-budget          *)
(* admission test of EnhancedTradingConfig.                                *)
(*                                                                         *)
(* Number representation.  JavaScript numbers are modelled as exact        *)
(* rationals scaled to integers:                                           *)
(*   - confidences and strengths are in thousandths (1000 = 1.0);          *)
(*   - percentages (pnlPercentage, hourly change) are whole percents; the  *)
(*     enumerated prices make every percentage of the model integral;      *)
(*   - the MACD triple is in units of 0.001;                               *)
(*   - comparisons against a product with a decimal factor (x * 1.2,       *)
(*     x * 0.98, x * 1.1) are cross-multiplied, which is exact.            *)
(***************************************************************************)
EXTENDS Integers, Sequences, FiniteSets, TLC

VARIABLES
    pc,          \* position of the evaluation: "idle", "done" or "rejected"
    inp,         \* arguments and market data of the evaluation in progress
    analysis,    \* the object analyzePosition returned
    decision,    \* the object shouldSellPosition returned
    rec,         \* the Recommendation getPositionRecommendation returned
    rsiHistory,  \* redis list rsi_history:<symbol>, head = newest sample
    call,        \* last call of a method under test, with its result
    redis,       \* the three history lists of one symbol
    pending,     \* store operations of HistoricalDataManager in flight
    pushed,      \* per list, the values pushed since the key last expired
    bot          \* EnhancedTradingBot: positions, exchange, timers

vars == <<pc, inp, analysis, decision, rec, rsiHistory, call, redis, pending, pushed, bot>>

(***************************************************************************)
(* Bounds of the exploration                                               *)
(***************************************************************************)
\* evaluations are explored while fewer samples than this are stored
MaxStored == 3

\* store operations started in one exploration of the history store
MaxOps == 3

\* calls of executeSmartSell and of placeBuyOrder in one exploration of the
\* orchestrator
MaxSells == 2
MaxBuys == 1

Symbols == {"BTCUSDT"}

None == [kind |-> "none"]
\* no store operation in flight, none started
NoPending == [ops |-> {}, started |-> 0]

(***************************************************************************)
(* Configuration values (schema defaults of EnhancedTradingConfig)         *)
(***************************************************************************)
stopLossPercentage == 8
takeProfitPercentage == 15
periodDays == 7
gracePeriodHours == 24
acceptLossThreshold == 5
maxHistoryPoints == 100

HourMs == 60 * 60 * 1000

\* Math.min / Math.max / Math.abs
Min(a, b) == IF a <= b THEN a ELSE b
Max(a, b) == IF a >= b THEN a ELSE b
Abs(a) == IF a < 0 THEN -a ELSE a

(***************************************************************************)
(* HistoricalDataManager: RSI history                                      *)
(***************************************************************************)
\* redis lRange(key, 0, stop): the first stop+1 elements of the list
lRange(list, stop) == SubSeq(list, 1, Min(Len(list), stop + 1))

Reverse(s) == [i \in 1..Len(s) |-> s[Len(s) + 1 - i]]

\* mutant: the element is appended at the tail of the list
lPushAtTail(list, element) == list \o <<element>>

\* redis lPush(key, element): the element becomes the head of the list
lPush(list, element) == <<element>> \o list

\* redis lTrim(key, 0, stop): only the first stop+1 elements are kept
lTrim(list, stop) == lRange(list, stop)

\* lPush followed by lTrim(key, 0, maxHistoryPoints - 1)
storeRSI(list, rsi) == lRange(<<rsi>> \o list, maxHistoryPoints - 1)

\* mutant: the window is returned as redis gives it, newest first
getRSIHistoryNewestFirst(list, count) == lRange(list, count - 1)

\* lRange(key, 0, count - 1), parsed and reversed
getRSIHistory(list, count) == Reverse(lRange(list, count - 1))

\* history[1] of the two-element window (JavaScript index 1), else null
getPreviousRSI(list) ==
    LET history == getRSIHistory(list, 2)
    IN  IF Len(history) >= 2 THEN [kind |-> "number", value |-> history[2]]
        ELSE [kind |-> "null"]

\* HistoricalDataManager.isRSIWeakening: history[i] below is the JavaScript
\* history[i-1]
HistoricalIsRSIWeakening(list, periods) ==
    LET history == getRSIHistory(list, periods + 1)
    IN  IF Len(history) < periods THEN FALSE
        ELSE /\ \A i \in 1..(periods - 1) : history[i + 1] < history[i]
             /\ history[1] - history[periods] > 5

\* SmartLossManager.isRSIWeakening is an async method: its caller receives a
\* Promise that later resolves to the boolean of the historical manager
isRSIWeakening(list) ==
    [kind |-> "promise", value |-> HistoricalIsRSIWeakening(list, 3)]

\* JavaScript ToBoolean on the values the model passes to && and ?:
ToBoolean(v) ==
    CASE v.kind = "promise" -> TRUE
      [] v.kind = "null"    -> FALSE
      [] v.kind = "undefined" -> FALSE
      [] v.kind = "number"  -> v.value # 0
      [] v.kind = "boolean" -> v.value

(***************************************************************************)
(* SmartLossManager: sub-analyses                                          *)
(***************************************************************************)
\* the three values identifyTrend returns
TrendLabels == {"UPTREND", "DOWNTREND", "SIDEWAYS"}

\* analyzeTrend, from the three identifyTrend results and the position of
\* the last close within the 10-candle range (positionInRange, in tenths);
\* strength in thousandths
analyzeTrend(shortTrend, mediumTrend, longTrend, positionInRange) ==
    IF shortTrend = "UPTREND" /\ mediumTrend = "UPTREND"
    THEN [direction |-> IF longTrend = "UPTREND" THEN "STRONG_UP" ELSE "UP",
          strength  |-> 600 + positionInRange * 40]
    ELSE IF shortTrend = "DOWNTREND" /\ mediumTrend = "DOWNTREND"
    THEN [direction |-> IF longTrend = "DOWNTREND" THEN "STRONG_DOWN" ELSE "DOWN",
          strength  |-> 600 + (10 - positionInRange) * 40]
    ELSE IF shortTrend = "UPTREND" \/ mediumTrend = "UPTREND"
    THEN [direction |-> "WEAK_UP", strength |-> 300 + positionInRange * 30]
    ELSE IF shortTrend = "DOWNTREND" \/ mediumTrend = "DOWNTREND"
    THEN [direction |-> "WEAK_DOWN", strength |-> 300 + (10 - positionInRange) * 30]
    ELSE [direction |-> "SIDEWAYS", strength |-> 0]

\* analyzeMomentum; macd.histogram in units of 0.001, so macdStrength
\* (|histogram| * 1000) is its absolute value; strength in thousandths
analyzeMomentum(list, indicators) ==
    LET macdMomentum == IF indicators.macd.histogram > 0 THEN "POSITIVE" ELSE "NEGATIVE"
        macdStrength == Abs(indicators.macd.histogram)
        previousRSI  == getPreviousRSI(list)
        rsiChange    == IF ToBoolean(previousRSI)
                        THEN indicators.rsi - previousRSI.value ELSE 0
        strength     == Min((macdStrength + Abs(rsiChange)) * 100, 1000)
    IN  IF macdMomentum = "POSITIVE" /\ rsiChange > 2
        THEN [direction |-> "STRENGTHENING", strength |-> strength]
        ELSE IF macdMomentum = "NEGATIVE" /\ rsiChange < -2
        THEN [direction |-> "WEAKENING", strength |-> strength]
        ELSE [direction |-> "NEUTRAL", strength |-> 0]

\* getHourlyPriceChange, in percent; the catch block returns 0
getHourlyPriceChange(fetch) ==
    IF fetch.ok
    THEN ((fetch.currentPrice - fetch.hourAgoPrice) * 100) \div fetch.hourAgoPrice
    ELSE 0

\* getLongerTimeframeTrend; the catch block returns 'SIDEWAYS'
getLongerTimeframeTrend(fetch) ==
    IF fetch.ok THEN fetch.trend ELSE "SIDEWAYS"

\* pnlPercentage as analyzePosition computes it
pnlPercentageOf(position, currentPrice) ==
    (((currentPrice - position.entryPrice) * position.quantity) * 100)
        \div (position.entryPrice * position.quantity)

(***************************************************************************)
(* SmartLossManager: the five checks and the hold confidence               *)
(***************************************************************************)
\* the confidence checkEmergencyConditions accumulates
emergencyConfidence(hourlyChange, indicators, trend, pnlPercentage) ==
    LET flash == IF hourlyChange < -8 THEN 900 ELSE 0
        panic == IF indicators.rsi < 20 /\ indicators.volume > indicators.volumeMA * 2
                 THEN 700 ELSE 0
        down  == IF /\ trend.direction = "STRONG_DOWN"
                    /\ trend.strength > 800
                    /\ pnlPercentage < -12
                 THEN 800 ELSE 0
        \* histogram < -0.002 && macd < signal * 1.1
        macd  == IF /\ indicators.macd.histogram < -2
                    /\ indicators.macd.macd * 10 < indicators.macd.signal * 11
                 THEN 600 ELSE 0
        \* bbWidth < 2 && currentPrice < lower * 0.98
        boll  == IF /\ (indicators.bollinger.upper - indicators.bollinger.lower) * 100
                           < 2 * indicators.bollinger.middle
                    /\ indicators.currentPrice * 100 < indicators.bollinger.lower * 98
                 THEN 700 ELSE 0
    IN  flash + panic + down + macd + boll

\* mutant: the threshold is reached, not exceeded
checkEmergencyConditionsAtLeast(hourlyChange, indicators, trend, pnlPercentage) ==
    LET confidence == emergencyConfidence(hourlyChange, indicators, trend, pnlPercentage)
    IN  [shouldSell |-> confidence >= 700,
         confidence |-> Min(confidence, 1000)]

checkEmergencyConditions(hourlyChange, indicators, trend, pnlPercentage) ==
    LET confidence == emergencyConfidence(hourlyChange, indicators, trend, pnlPercentage)
    IN  [shouldSell |-> confidence > 700,
         confidence |-> Min(confidence, 1000)]

\* the confidence checkTrendReversal accumulates
trendConfidence(list, longerTrend, trend, momentum, indicators, pnlPercentage) ==
    LET down   == IF trend.direction = "DOWN" \/ trend.direction = "STRONG_DOWN"
                  THEN (trend.strength * 4) \div 10 ELSE 0
        cross  == IF /\ indicators.currentPrice < indicators.sma20
                     /\ indicators.sma20 < indicators.sma50
                  THEN 300 ELSE 0
        weak   == IF momentum.direction = "WEAKENING" /\ momentum.strength > 600
                  THEN 200 ELSE 0
        \* the call is not awaited: the operand of && is the Promise
        rsi    == IF indicators.rsi < 45 /\ ToBoolean(isRSIWeakening(list))
                  THEN 200 ELSE 0
        volume == IF indicators.volume * 10 > indicators.volumeMA * 12
                  THEN 200 ELSE 0
        loss   == IF pnlPercentage < -6
                  THEN Min((Abs(pnlPercentage) * 1000) \div 15, 300) ELSE 0
        longer == IF longerTrend = "DOWN" THEN 200 ELSE 0
    IN  down + cross + weak + rsi + volume + loss + longer

\* mutant: one threshold of 0.6 whatever the loss
checkTrendReversalFixedThreshold(list, longerTrend, trend, momentum, indicators, pnlPercentage) ==
    LET confidence == trendConfidence(list, longerTrend, trend, momentum, indicators,
                                      pnlPercentage)
    IN  [shouldSell |-> confidence > 600,
         confidence |-> Min(confidence, 1000)]

checkTrendReversal(list, longerTrend, trend, momentum, indicators, pnlPercentage) ==
    LET confidence == trendConfidence(list, longerTrend, trend, momentum, indicators,
                                      pnlPercentage)
        requiredConfidence == IF pnlPercentage > -3 THEN 800 ELSE 600
    IN  [shouldSell |-> confidence > requiredConfidence,
         confidence |-> Min(confidence, 1000)]

\* mutant: the stop price must be crossed, not reached
checkStopLossStrict(position, currentPrice, pnlPercentage) ==
    LET stopLossHit     == currentPrice < position.stopLoss
        hardStopPercent == -stopLossPercentage
        hardStopHit     == pnlPercentage <= hardStopPercent
    IN  [shouldSell |-> stopLossHit \/ hardStopHit, confidence |-> 1000]

checkStopLoss(position, currentPrice, pnlPercentage) ==
    LET stopLossHit     == currentPrice <= position.stopLoss
        hardStopPercent == -stopLossPercentage
        hardStopHit     == pnlPercentage <= hardStopPercent
    IN  [shouldSell |-> stopLossHit \/ hardStopHit, confidence |-> 1000]

\* mutant: the grace period and the loss threshold are both required
checkTimeBasedSellBoth(acceptLossAfterPeriod, holdingTime, pnlPercentage) ==
    LET maxHoldingTime       == periodDays * 24 * HourMs
        gracePeriod          == gracePeriodHours * HourMs
        isExpired            == holdingTime > maxHoldingTime
        isInGracePeriod      == holdingTime <= maxHoldingTime + gracePeriod
        exceedsLossThreshold == pnlPercentage < -acceptLossThreshold
        shouldSell == /\ acceptLossAfterPeriod
                      /\ isExpired
                      /\ (~isInGracePeriod /\ exceedsLossThreshold)
    IN  [shouldSell |-> shouldSell,
         confidence |-> IF shouldSell THEN 800 ELSE 0]

checkTimeBasedSell(acceptLossAfterPeriod, holdingTime, pnlPercentage) ==
    LET maxHoldingTime       == periodDays * 24 * HourMs
        gracePeriod          == gracePeriodHours * HourMs
        isExpired            == holdingTime > maxHoldingTime
        isInGracePeriod      == holdingTime <= maxHoldingTime + gracePeriod
        exceedsLossThreshold == pnlPercentage < -acceptLossThreshold
        shouldSell == /\ acceptLossAfterPeriod
                      /\ isExpired
                      /\ (~isInGracePeriod \/ exceedsLossThreshold)
    IN  [shouldSell |-> shouldSell,
         confidence |-> IF shouldSell THEN 800 ELSE 0]

\* mutant: only the take-profit price is tested
checkTakeProfitPriceOnly(position, currentPrice, pnlPercentage) ==
    LET takeProfitHit == currentPrice >= position.takeProfit
    IN  [shouldSell |-> takeProfitHit, confidence |-> 1000]

checkTakeProfit(position, currentPrice, pnlPercentage) ==
    LET takeProfitHit   == currentPrice >= position.takeProfit
        profitTargetHit == pnlPercentage >= takeProfitPercentage
    IN  [shouldSell |-> takeProfitHit \/ profitTargetHit, confidence |-> 1000]

\* mutant: the sum is returned without the clamp
calculateHoldConfidenceUnclamped(trend, momentum, pnlPercentage) ==
    LET up    == IF trend.direction = "UP" \/ trend.direction = "STRONG_UP"
                 THEN (trend.strength * 3) \div 10 ELSE 0
        mom   == IF momentum.direction = "STRENGTHENING"
                 THEN (momentum.strength * 2) \div 10 ELSE 0
        gain  == IF pnlPercentage > 0 THEN Min(pnlPercentage * 100, 200) ELSE 0
        down  == IF trend.direction = "DOWN" \/ trend.direction = "STRONG_DOWN"
                 THEN (trend.strength * 4) \div 10 ELSE 0
        loss  == IF pnlPercentage < -5 THEN Min(Abs(pnlPercentage) * 50, 300) ELSE 0
    IN  500 + up + mom + gain - down - loss

calculateHoldConfidence(trend, momentum, pnlPercentage) ==
    LET up    == IF trend.direction = "UP" \/ trend.direction = "STRONG_UP"
                 THEN (trend.strength * 3) \div 10 ELSE 0
        mom   == IF momentum.direction = "STRENGTHENING"
                 THEN (momentum.strength * 2) \div 10 ELSE 0
        gain  == IF pnlPercentage > 0 THEN Min(pnlPercentage * 100, 200) ELSE 0
        down  == IF trend.direction = "DOWN" \/ trend.direction = "STRONG_DOWN"
                 THEN (trend.strength * 4) \div 10 ELSE 0
        loss  == IF pnlPercentage < -5 THEN Min(Abs(pnlPercentage) * 50, 300) ELSE 0
        confidence == 500 + up + mom + gain - down - loss
    IN  Max(0, Min(1000, confidence))

(***************************************************************************)
(* SmartLossManager: analyzePosition, shouldSellPosition and               *)
(* getPositionRecommendation                                               *)
(***************************************************************************)
\* analyzePosition after the 100-candle fetch succeeded; list is the RSI
\* history as it is when analyzeMomentum reads it
analyzePosition(list, i) ==
    LET trend == analyzeTrend(i.market.shortTrend, i.market.mediumTrend,
                              i.market.longTrend, i.market.positionInRange)
        momentum == analyzeMomentum(list, i.market.indicators)
        stored == storeRSI(list, i.market.indicators.rsi)
        pnlPercentage == pnlPercentageOf(i.position, i.currentPrice)
    IN  [trend         |-> trend,
         momentum      |-> momentum,
         pnlPercentage |-> pnlPercentage,
         emergencySell |-> checkEmergencyConditions(getHourlyPriceChange(i.hourly),
                               i.market.indicators, trend, pnlPercentage),
         trendSell     |-> checkTrendReversal(stored, getLongerTimeframeTrend(i.longer),
                               trend, momentum, i.market.indicators, pnlPercentage),
         stopLoss      |-> checkStopLoss(i.position, i.currentPrice, pnlPercentage),
         timeBasedSell |-> checkTimeBasedSell(i.acceptLossAfterPeriod, i.holdingTime,
                               pnlPercentage),
         takeProfit    |-> checkTakeProfit(i.position, i.currentPrice, pnlPercentage),
         holdConfidence |-> calculateHoldConfidence(trend, momentum, pnlPercentage)]

\* the rule cascade of shouldSellPosition
\* mutant: the trend-reversal verdict is returned before the emergency one
shouldSellPositionTrendFirst(a) ==
    IF a.trendSell.shouldSell
    THEN [shouldSell |-> TRUE, reason |-> "TREND_REVERSAL",
          confidence |-> a.trendSell.confidence, urgency |-> "MEDIUM"]
    ELSE IF a.emergencySell.shouldSell
    THEN [shouldSell |-> TRUE, reason |-> "EMERGENCY_SELL",
          confidence |-> a.emergencySell.confidence, urgency |-> "HIGH"]
    ELSE IF a.stopLoss.shouldSell
    THEN [shouldSell |-> TRUE, reason |-> "STOP_LOSS",
          confidence |-> 1000, urgency |-> "HIGH"]
    ELSE IF a.timeBasedSell.shouldSell
    THEN [shouldSell |-> TRUE, reason |-> "TIME_BASED_LOSS",
          confidence |-> a.timeBasedSell.confidence, urgency |-> "LOW"]
    ELSE IF a.takeProfit.shouldSell
    THEN [shouldSell |-> TRUE, reason |-> "TAKE_PROFIT",
          confidence |-> 1000, urgency |-> "LOW"]
    ELSE [shouldSell |-> FALSE, reason |-> "HOLD",
          confidence |-> a.holdConfidence, urgency |-> "NONE"]

\* mutant: the time-based verdict carries the urgency of the trend reversal
shouldSellPositionTimeMedium(a) ==
    IF a.emergencySell.shouldSell
    THEN [shouldSell |-> TRUE, reason |-> "EMERGENCY_SELL",
          confidence |-> a.emergencySell.confidence, urgency |-> "HIGH"]
    ELSE IF a.trendSell.shouldSell
    THEN [shouldSell |-> TRUE, reason |-> "TREND_REVERSAL",
          confidence |-> a.trendSell.confidence, urgency |-> "MEDIUM"]
    ELSE IF a.stopLoss.shouldSell
    THEN [shouldSell |-> TRUE, reason |-> "STOP_LOSS",
          confidence |-> 1000, urgency |-> "HIGH"]
    ELSE IF a.timeBasedSell.shouldSell
    THEN [shouldSell |-> TRUE, reason |-> "TIME_BASED_LOSS",
          confidence |-> a.timeBasedSell.confidence, urgency |-> "MEDIUM"]
    ELSE IF a.takeProfit.shouldSell
    THEN [shouldSell |-> TRUE, reason |-> "TAKE_PROFIT",
          confidence |-> 1000, urgency |-> "LOW"]
    ELSE [shouldSell |-> FALSE, reason |-> "HOLD",
          confidence |-> a.holdConfidence, urgency |-> "NONE"]

shouldSellPosition(a) ==
    IF a.emergencySell.shouldSell
    THEN [shouldSell |-> TRUE, reason |-> "EMERGENCY_SELL",
          confidence |-> a.emergencySell.confidence, urgency |-> "HIGH"]
    ELSE IF a.trendSell.shouldSell
    THEN [shouldSell |-> TRUE, reason |-> "TREND_REVERSAL",
          confidence |-> a.trendSell.confidence, urgency |-> "MEDIUM"]
    ELSE IF a.stopLoss.shouldSell
    THEN [shouldSell |-> TRUE, reason |-> "STOP_LOSS",
          confidence |-> 1000, urgency |-> "HIGH"]
    ELSE IF a.timeBasedSell.shouldSell
    THEN [shouldSell |-> TRUE, reason |-> "TIME_BASED_LOSS",
          confidence |-> a.timeBasedSell.confidence, urgency |-> "LOW"]
    ELSE IF a.takeProfit.shouldSell
    THEN [shouldSell |-> TRUE, reason |-> "TAKE_PROFIT",
          confidence |-> 1000, urgency |-> "LOW"]
    ELSE [shouldSell |-> FALSE, reason |-> "HOLD",
          confidence |-> a.holdConfidence, urgency |-> "NONE"]

\* mutant: the HOLD branch passes the reason of the decision on
getPositionRecommendationKeepReason(d) ==
    IF d.shouldSell
    THEN [action |-> "SELL", reason |-> d.reason,
          confidence |-> d.confidence, urgency |-> d.urgency]
    ELSE [action |-> "HOLD", reason |-> d.reason,
          confidence |-> d.confidence, urgency |-> "NONE"]

getPositionRecommendation(d) ==
    IF d.shouldSell
    THEN [action |-> "SELL", reason |-> d.reason,
          confidence |-> d.confidence, urgency |-> d.urgency]
    ELSE [action |-> "HOLD", reason |-> "CONTINUE_POSITION",
          confidence |-> d.confidence, urgency |-> "NONE"]

(***************************************************************************)
(* EnhancedTradingConfig: risk-budget admission.  Money is in cents; the   *)
(* order values of the model are whole dollars, so the worst-case loss     *)
(* orderValue * stopLossPercentage / 100 is a whole number of cents.       *)
(***************************************************************************)
\* virtual maxTotalLossAmount
maxTotalLossAmount(cfg) == (cfg.totalCapital * cfg.maxLossPercentage) \div 100

\* mutant: an order that exactly exhausts the budget is refused
canPlaceNewOrderStrict(cfg, currentRisk, orderValue, activeOrdersCount) ==
    LET maxLoss == maxTotalLossAmount(cfg)
        riskAfterOrder == currentRisk + (orderValue * cfg.stopLossPercentage) \div 100
    IN  /\ riskAfterOrder < maxLoss
        /\ activeOrdersCount < cfg.maxConcurrentOrders

canPlaceNewOrder(cfg, currentRisk, orderValue, activeOrdersCount) ==
    LET maxLoss == maxTotalLossAmount(cfg)
        riskAfterOrder == currentRisk + (orderValue * cfg.stopLossPercentage) \div 100
    IN  /\ riskAfterOrder <= maxLoss
        /\ activeOrdersCount < cfg.maxConcurrentOrders

\* a property the object does not have
Undefined == [kind |-> "undefined"]
Number(n) == [kind |-> "number", value |-> n]

\* shouldAcceptLoss(position, currentTime).  A quotient with an undefined
\* operand is NaN and every comparison with NaN is false; otherwise
\* Math.abs(unrealizedPnl / value) > acceptLossThreshold / 100 is
\* cross-multiplied.
shouldAcceptLoss(cfg, position, currentTime) ==
    LET positionAge   == currentTime - position.entryTime
        periodMs      == cfg.periodDays * 24 * 60 * 60 * 1000
        gracePeriodMs == cfg.gracePeriodHours * 60 * 60 * 1000
        isExpired       == positionAge > periodMs
        isInGracePeriod == positionAge <= periodMs + gracePeriodMs
        lossExceedsThreshold ==
            IF position.unrealizedPnl.kind = "number" /\ position.value.kind = "number"
            THEN Abs(position.unrealizedPnl.value) * 100
                   > cfg.acceptLossThreshold * Abs(position.value.value)
            ELSE FALSE
    IN  IF ~cfg.acceptLossAfterPeriod THEN FALSE
        ELSE isExpired /\ (~isInGracePeriod \/ lossExceedsThreshold)

reserveAmount(cfg) == (cfg.totalCapital * cfg.reservePercentage) \div 100
availableCapital(cfg) == cfg.totalCapital - reserveAmount(cfg)

\* mutant: the Kelly amount is bounded from below only
calculateOptimalPositionSizeNoCap(cfg, volatility, winRate) ==
    IF cfg.strategy = "kelly_criterion"
    THEN IF ~ToBoolean(winRate) \/ winRate.value <= 500 THEN cfg.minPositionSize
         ELSE Max((availableCapital(cfg) * (11 * winRate.value - 10000)) \div 1000,
                  cfg.minPositionSize)
    ELSE cfg.minPositionSize

\* calculateOptimalPositionSize(symbol, volatility, winRate): money in
\* cents, volatility in percent, winRate in thousandths.  With avgWin = 0.1
\* the fraction ((avgWin * winRate) - (1 - winRate)) / avgWin is
\* 11 * winRate - 10; the enumerated inputs make every quotient integral.
calculateOptimalPositionSize(cfg, volatility, winRate) ==
    CASE cfg.strategy = "equal_weight" ->
           availableCapital(cfg) \div cfg.maxActiveSymbols
      [] cfg.strategy = "risk_parity" ->
           Min(((availableCapital(cfg) \div cfg.maxActiveSymbols) * 15)
                   \div Max(volatility, 5),
               cfg.maxPositionSize)
      [] cfg.strategy = "kelly_criterion" ->
           IF ~ToBoolean(winRate) \/ winRate.value <= 500 THEN cfg.minPositionSize
           ELSE Min(Max((availableCapital(cfg) * (11 * winRate.value - 10000)) \div 1000,
                        cfg.minPositionSize),
                    cfg.maxPositionSize)
      [] OTHER -> cfg.minPositionSize

(***************************************************************************)
(* Inputs of an evaluation.  Market data are drawn independently of each   *)
(* other: every combination a candle window can produce is included.       *)
(***************************************************************************)
\* (shortTrend, mediumTrend, longTrend): one case per direction of analyzeTrend
TrendWindows ==
    { <<"UPTREND", "UPTREND", "UPTREND">>,       <<"UPTREND", "UPTREND", "DOWNTREND">>,
      <<"DOWNTREND", "DOWNTREND", "DOWNTREND">>, <<"DOWNTREND", "DOWNTREND", "UPTREND">>,
      <<"UPTREND", "SIDEWAYS", "SIDEWAYS">>,     <<"SIDEWAYS", "DOWNTREND", "SIDEWAYS">>,
      <<"SIDEWAYS", "SIDEWAYS", "SIDEWAYS">> }
DownWindows ==
    { <<"DOWNTREND", "DOWNTREND", "DOWNTREND">>, <<"DOWNTREND", "DOWNTREND", "UPTREND">>,
      <<"SIDEWAYS", "SIDEWAYS", "SIDEWAYS">> }
RangePositions == {0, 5, 10}

\* below the panic level of 20, and neutral
RSIValues == {15, 50}
\* last volume against a volumeMA of 10: at most 1.2x, above 1.2x, above 2x
Volumes == {10, 13, 21}
\* <<macd, signal>>: bearish divergence, negative histogram without the
\* macd < signal * 1.1 part, histogram at the -0.002 limit, positive histogram
MacdPairs == { <<-5, -2>>, <<-43, -40>>, <<-2, 0>>, <<2, 0>> }
\* <<currentPrice, sma20, sma50, upper, middle, lower>> of the candle window
PriceStructures ==
    { << 990, 1000, 1010, 1005, 1000,  995>>,   \* bearish cross, narrow band
      << 970, 1000, 1010, 1005, 1000,  995>>,   \* bearish cross, squeeze breakdown
      <<1010, 1000,  990, 1100, 1000,  900>>,   \* above the averages, wide band
      << 850, 1000,  990, 1100, 1000,  900>> }  \* below a wide band, no cross

FetchFailed == [ok |-> FALSE, hourAgoPrice |-> 1, currentPrice |-> 1, trend |-> "SIDEWAYS"]
HourlyFetch(ago, last) ==
    [ok |-> TRUE, hourAgoPrice |-> ago, currentPrice |-> last, trend |-> "SIDEWAYS"]
LongerFetch(t) == [ok |-> TRUE, hourAgoPrice |-> 1, currentPrice |-> 1, trend |-> t]
\* hourly change of -9%, of -8%, and a failed fetch
HourlyFetches == { HourlyFetch(100, 91), HourlyFetch(100, 92), FetchFailed }
LongerFetches == { LongerFetch("DOWNTREND"), FetchFailed }

\* the position of the spec's scenario, with three stop prices; the
\* take-profit price of placeBuyOrder is taken from the cached price, the
\* entry price from the fill, so it lies at, below or above entry * 1.15
StopPrices == {90, 92, 98}
TakeProfitPrices == {110, 115, 120}
Position(stop, target) ==
    [entryPrice |-> 100, quantity |-> 2, stopLoss |-> stop, takeProfit |-> target]
CurrentPrices == {85, 90, 92, 94, 97, 98, 105, 115}
\* at the holding-period limit, inside the grace period, past the grace period
HoldingTimes == {168 * HourMs, 180 * HourMs, 193 * HourMs}

Indicators(r, v, m, s) ==
    [currentPrice |-> s[1], rsi |-> r, sma20 |-> s[2], sma50 |-> s[3],
     macd |-> [macd |-> m[1], signal |-> m[2], histogram |-> m[1] - m[2]],
     bollinger |-> [upper |-> s[4], middle |-> s[5], lower |-> s[6]],
     volume |-> v, volumeMA |-> 10]

Input(h, l, w, q, r, v, m, s, sl, tp, p, t, a) ==
    [symbol |-> "BTCUSDT", klinesOk |-> TRUE,
     hourly |-> h, longer |-> l,
     market |-> [shortTrend |-> w[1], mediumTrend |-> w[2], longTrend |-> w[3],
                 positionInRange |-> q, indicators |-> Indicators(r, v, m, s)],
     position |-> Position(sl, tp), currentPrice |-> p,
     holdingTime |-> t, acceptLossAfterPeriod |-> a]

\* The input space is the union of four products.  Each varies the inputs
\* of one group of rules in full and holds the others at a resting value.
\*   emergency: every emergency trigger against losing and winning prices
\*   trend:     every trend-reversal contribution against every price
\*   position:  every stop price, holding time and price against every
\*              trend and momentum
\*   profit:    every take-profit price against prices around it and around
\*              the 15% target, inside and past the holding period
Slices == {"emergency", "trend", "position", "profit"}
Dims(slice) ==
    CASE slice = "emergency" ->
           [H |-> HourlyFetches, L |-> {FetchFailed}, W |-> DownWindows,
            Q |-> RangePositions, R |-> RSIValues, V |-> Volumes, M |-> MacdPairs,
            S |-> PriceStructures, SL |-> {92}, TP |-> {115}, P |-> {85, 90, 98, 115},
            T |-> {168 * HourMs}, A |-> {TRUE}]
      [] slice = "trend" ->
           [H |-> {HourlyFetch(100, 92)}, L |-> LongerFetches, W |-> TrendWindows,
            Q |-> RangePositions, R |-> RSIValues, V |-> Volumes,
            M |-> {<<-5, -2>>, <<-2, 0>>, <<2, 0>>},
            S |-> {<<990, 1000, 1010, 1005, 1000, 995>>,
                   <<1010, 1000, 990, 1100, 1000, 900>>},
            SL |-> {92}, TP |-> {115}, P |-> CurrentPrices,
            T |-> {168 * HourMs}, A |-> {TRUE}]
      [] slice = "position" ->
           [H |-> {HourlyFetch(100, 92)}, L |-> {FetchFailed}, W |-> TrendWindows,
            Q |-> RangePositions, R |-> RSIValues, V |-> {10},
            M |-> {<<-2, 0>>, <<2, 0>>, <<0, 0>>},
            S |-> {<<1010, 1000, 990, 1100, 1000, 900>>},
            SL |-> StopPrices, TP |-> {115}, P |-> CurrentPrices,
            T |-> HoldingTimes, A |-> BOOLEAN]
      [] slice = "profit" ->
           [H |-> {HourlyFetch(100, 92)}, L |-> {FetchFailed},
            W |-> {<<"SIDEWAYS", "SIDEWAYS", "SIDEWAYS">>, <<"UPTREND", "UPTREND", "UPTREND">>},
            Q |-> {5}, R |-> RSIValues, V |-> {10}, M |-> {<<2, 0>>},
            S |-> {<<1010, 1000, 990, 1100, 1000, 900>>},
            SL |-> {92}, TP |-> TakeProfitPrices, P |-> {105, 110, 114, 115, 120},
            T |-> {168 * HourMs, 193 * HourMs}, A |-> {TRUE}]

(***************************************************************************)
(* The evaluation of one position                                          *)
(***************************************************************************)
Init ==
    /\ pc = "idle"
    /\ inp = None
    /\ analysis = None
    /\ decision = None
    /\ rec = None
    /\ rsiHistory = [s \in Symbols |-> <<>>]
    /\ call = None
    /\ redis = None
    /\ pending = NoPending
    /\ pushed = None
    /\ bot = None

\* getPositionRecommendation(symbol, position) runs to its return
Evaluate ==
    /\ pc = "idle"
    /\ \E slice \in Slices :
         LET D == Dims(slice) IN
         \E h \in D.H, l \in D.L, w \in D.W, q \in D.Q, r \in D.R, v \in D.V,
            m \in D.M, s \in D.S, sl \in D.SL, tp \in D.TP, p \in D.P, t \in D.T,
            a \in D.A :
           LET i  == Input(h, l, w, q, r, v, m, s, sl, tp, p, t, a)
               an == analyzePosition(rsiHistory[i.symbol], i)
               d  == shouldSellPosition(an)
           IN  /\ Len(rsiHistory[i.symbol]) < MaxStored
               /\ inp' = i
               /\ analysis' = an
               /\ decision' = d
               /\ rec' = getPositionRecommendation(d)
               /\ rsiHistory' = [rsiHistory EXCEPT
                                   ![i.symbol] = storeRSI(@, i.market.indicators.rsi)]
    /\ pc' = "done"
    /\ UNCHANGED <<call, redis, pending, pushed, bot>>

\* binance.candlesticks(symbol, '15m', false, {limit: 100}) throws in
\* analyzePosition: there is no handler up to getPositionRecommendation,
\* whose promise rejects.  Nothing else of the evaluation is read.
EvaluateKlinesFail ==
    /\ pc = "idle"
    /\ \E sl \in StopPrices, p \in CurrentPrices :
         inp' = [Input(FetchFailed, FetchFailed, <<"SIDEWAYS", "SIDEWAYS", "SIDEWAYS">>,
                       5, 50, 10, <<2, 0>>, <<1010, 1000, 990, 1100, 1000, 900>>,
                       sl, 115, p, 168 * HourMs, TRUE)
                 EXCEPT !.klinesOk = FALSE]
    /\ pc' = "rejected"
    /\ analysis' = None
    /\ decision' = None
    /\ rec' = None
    /\ UNCHANGED <<rsiHistory, call, redis, pending, pushed, bot>>

\* the caller takes the result; the next evaluation can start
Return ==
    /\ pc \in {"done", "rejected"}
    /\ pc' = "idle"
    /\ inp' = None
    /\ analysis' = None
    /\ decision' = None
    /\ rec' = None
    /\ UNCHANGED <<rsiHistory, call, redis, pending, pushed, bot>>

Next == Evaluate \/ EvaluateKlinesFail \/ Return

Spec == Init /\ [][Next]_vars

(***************************************************************************)
(* Calls of the configuration methods                                      *)
(***************************************************************************)
\* capital of $50 (default) and $100, loss budget of 20% (default) and 10%,
\* stop loss of 8% (default) and 5%, order limit of 15 (default) and 3
Configs ==
    [totalCapital : {5000, 10000}, maxLossPercentage : {20, 10},
     stopLossPercentage : {8, 5}, maxConcurrentOrders : {15, 3}]
\* current risk in cents, around the budgets of $5, $10 and $20
CurrentRisks == {0, 380, 879, 880, 881, 1000, 1925, 2001}
\* order values of $5, $15 and $25, in cents
OrderValues == {500, 1500, 2500}
ActiveOrderCounts == {0, 2, 3, 14, 15, 16}

CanPlaceNewOrderCalls ==
    [op : {"canPlaceNewOrder"}, config : Configs,
     currentRisk : CurrentRisks, orderValue : OrderValues,
     activeOrdersCount : ActiveOrderCounts,
     done : {FALSE}, result : {FALSE}]

\* tradingPeriods: the defaults, with the loss acceptance on and off
PeriodConfigs ==
    [periodDays : {periodDays}, gracePeriodHours : {gracePeriodHours},
     acceptLossThreshold : {acceptLossThreshold}, acceptLossAfterPeriod : BOOLEAN]
\* a position bought HoldingTime ago at 100, with 2 units: as placeBuyOrder
\* builds it (neither unrealizedPnl nor value), as updateRiskMetrics
\* annotates it (unrealizedPnl), and with a value as shouldAcceptLoss
\* expects it
AgedPosition(price, annotated, valued) ==
    [entryTime |-> 0, entryPrice |-> 100, quantity |-> 2, currentPrice |-> price,
     unrealizedPnl |-> IF annotated THEN Number((price - 100) * 2) ELSE Undefined,
     value |-> IF valued THEN Number(100 * 2) ELSE Undefined]
AgedPositions ==
    { AgedPosition(price, annotated, valued) :
        price \in {85, 95, 96, 100, 104, 115}, annotated \in BOOLEAN, valued \in BOOLEAN }
\* at the period, inside the grace period, at its end, past it
CurrentTimes == {168 * HourMs, 180 * HourMs, 192 * HourMs, 193 * HourMs}
ShouldAcceptLossCalls ==
    [op : {"shouldAcceptLoss"}, config : PeriodConfigs, position : AgedPositions,
     currentTime : CurrentTimes, done : {FALSE}, result : {FALSE}]

\* capital of $50 (default) and $100 with the default reserve of 10% and 5
\* symbols, position sizes of $5..$15 (default) and $5..$25
SizingConfigs ==
    [totalCapital : {5000, 10000}, reservePercentage : {10}, maxActiveSymbols : {5},
     strategy : {"equal_weight", "risk_parity", "kelly_criterion", "fixed_amount"},
     minPositionSize : {500}, maxPositionSize : {1500, 2500}]
\* volatilityCache.get(symbol) || 0.1, in percent
Volatilities == {5, 10, 15, 30}
\* calculateSymbolWinRate, in thousandths; a caller may pass none
WinRates == {Undefined} \cup { Number(w) : w \in {0, 400, 500, 510, 600, 910, 920, 950, 1000} }
OptimalPositionSizeCalls ==
    [op : {"calculateOptimalPositionSize"}, config : SizingConfigs,
     volatility : Volatilities, winRate : WinRates, done : {FALSE}, result : {0}]

InitConfig ==
    /\ pc = "idle"
    /\ inp = None
    /\ analysis = None
    /\ decision = None
    /\ rec = None
    /\ rsiHistory = [s \in Symbols |-> <<>>]
    /\ call \in CanPlaceNewOrderCalls \cup ShouldAcceptLossCalls
                  \cup OptimalPositionSizeCalls
    /\ redis = None
    /\ pending = NoPending
    /\ pushed = None
    /\ bot = None

\* config.canPlaceNewOrder(currentRisk, orderValue, activeOrdersCount)
CallCanPlaceNewOrder ==
    /\ call.op = "canPlaceNewOrder"
    /\ ~call.done
    /\ call' = [call EXCEPT !.done = TRUE,
                  !.result = canPlaceNewOrder(call.config, call.currentRisk,
                                              call.orderValue, call.activeOrdersCount)]
    /\ UNCHANGED <<pc, inp, analysis, decision, rec, rsiHistory, redis, pending, pushed, bot>>

\* config.shouldAcceptLoss(position, currentTime)
CallShouldAcceptLoss ==
    /\ call.op = "shouldAcceptLoss"
    /\ ~call.done
    /\ call' = [call EXCEPT !.done = TRUE,
                  !.result = shouldAcceptLoss(call.config, call.position, call.currentTime)]
    /\ UNCHANGED <<pc, inp, analysis, decision, rec, rsiHistory, redis, pending, pushed, bot>>

\* config.calculateOptimalPositionSize(symbol, volatility, winRate)
CallCalculateOptimalPositionSize ==
    /\ call.op = "calculateOptimalPositionSize"
    /\ ~call.done
    /\ call' = [call EXCEPT !.done = TRUE,
                  !.result = calculateOptimalPositionSize(call.config, call.volatility,
                                                          call.winRate)]
    /\ UNCHANGED <<pc, inp, analysis, decision, rec, rsiHistory, redis, pending, pushed, bot>>

NextConfig ==
    CallCanPlaceNewOrder \/ CallShouldAcceptLoss \/ CallCalculateOptimalPositionSize

SpecConfig == InitConfig /\ [][NextConfig]_vars

(***************************************************************************)
(* The history store of one symbol (specification SpecStore).  A list      *)
(* element is modelled by its number: RSI, volatility and price are finite *)
(* numbers, which JSON.stringify, JSON.parse and parseFloat give back      *)
(* unchanged.  Each store is three redis commands with an await between    *)
(* them, so the commands of concurrent stores interleave; expire does not  *)
(* touch the list and is taken together with lTrim.  A store that redis    *)
(* rejects is rejected at its first command.  The readers are called when  *)
(* the stores on the RSI key have completed.                               *)
(***************************************************************************)
Metrics == {"rsi", "volatility", "price"}

\* a list of n earlier samples, head = newest
Fill(n) == [i \in 1..n |-> 45 + ((n - i) % 10)]
\* samples already held by each list when the exploration starts
InitialLengths == {0, maxHistoryPoints - 1, maxHistoryPoints}

RSISamples == {35, 40}
\* volatility.current of analyzePosition; 0 stands for a missing value too,
\* which storeIndicatorsBatch replaces by 0
VolatilitySamples == {0}
PriceSamples == {100}
SamplesOf(metric) ==
    CASE metric = "rsi"        -> RSISamples
      [] metric = "volatility" -> VolatilitySamples
      [] metric = "price"      -> PriceSamples

\* the count arguments of getRSIHistory: one sample, getPreviousRSI (2),
\* isRSIWeakening (periods + 1 = 4), the default (10), more than the capacity
HistoryCounts == {1, 2, 4, 10, 150}
WeakeningPeriods == {2, 3}

InitStore ==
    /\ pc = "idle"
    /\ inp = None
    /\ analysis = None
    /\ decision = None
    /\ rec = None
    /\ rsiHistory = [s \in Symbols |-> <<>>]
    /\ call = None
    /\ \E n \in InitialLengths :
         /\ redis = [list |-> [m \in Metrics |-> Fill(n)]]
         /\ pushed = [m \in Metrics |-> Reverse(Fill(n))]
    /\ pending = NoPending
    /\ bot = None

OpsOn(metric) == { op \in pending.ops : op.metric = metric }

\* storeRSI / storeVolatility / storePriceUpdate is called: the data point
\* is built and the first command is about to be sent
StoreStart ==
    /\ call = None
    /\ pending.started < MaxOps
    /\ \E metric \in Metrics : \E value \in SamplesOf(metric) :
         pending' = [ops |-> pending.ops \cup
                               {[id |-> pending.started + 1, metric |-> metric,
                                 value |-> value, stage |-> "lPush"]},
                     started |-> pending.started + 1]
    /\ UNCHANGED <<pc, inp, analysis, decision, rec, rsiHistory, call, redis, pushed, bot>>

\* redis rejects the store: the catch block logs, the list is unchanged
StoreRejected ==
    /\ call = None
    /\ \E op \in pending.ops :
         /\ op.stage = "lPush"
         /\ pending' = [pending EXCEPT !.ops = @ \ {op}]
    /\ UNCHANGED <<pc, inp, analysis, decision, rec, rsiHistory, call, redis, pushed, bot>>

\* await redis.lPush(key, dataPoint)
StoreLPush ==
    /\ call = None
    /\ \E op \in pending.ops :
         /\ op.stage = "lPush"
         /\ redis' = [redis EXCEPT !.list[op.metric] = lPush(@, op.value)]
         /\ pushed' = [pushed EXCEPT ![op.metric] = Append(@, op.value)]
         /\ pending' = [pending EXCEPT
                          !.ops = (@ \ {op}) \cup {[op EXCEPT !.stage = "lTrim"]}]
    /\ UNCHANGED <<pc, inp, analysis, decision, rec, rsiHistory, call, bot>>

\* await redis.lTrim(key, 0, this.maxHistoryPoints - 1), then
\* await redis.expire(key, ttl): the TTL of the key starts again and the
\* store is complete
StoreLTrim ==
    /\ call = None
    /\ \E op \in pending.ops :
         /\ op.stage = "lTrim"
         /\ redis' = [redis EXCEPT !.list[op.metric] = lTrim(@, maxHistoryPoints - 1)]
         /\ pending' = [pending EXCEPT !.ops = @ \ {op}]
    /\ UNCHANGED <<pc, inp, analysis, decision, rec, rsiHistory, call, pushed, bot>>

\* the TTL of a key runs out, hours after the last store on it: redis
\* drops the list
KeyExpires ==
    /\ call = None
    /\ \E metric \in Metrics :
         /\ redis.list[metric] # <<>>
         /\ OpsOn(metric) = {}
         /\ redis' = [redis EXCEPT !.list[metric] = <<>>]
         /\ pushed' = [pushed EXCEPT ![metric] = <<>>]
    /\ UNCHANGED <<pc, inp, analysis, decision, rec, rsiHistory, call, pending, bot>>

\* getRSIHistory(symbol, count)
CallGetRSIHistory ==
    /\ call = None
    /\ OpsOn("rsi") = {}
    /\ \E count \in HistoryCounts :
         call' = [op |-> "getRSIHistory", count |-> count,
                  result |-> getRSIHistory(redis.list["rsi"], count)]
    /\ UNCHANGED <<pc, inp, analysis, decision, rec, rsiHistory, redis, pending, pushed, bot>>

\* HistoricalDataManager.isRSIWeakening(symbol, periods)
CallIsRSIWeakening ==
    /\ call = None
    /\ OpsOn("rsi") = {}
    /\ \E periods \in WeakeningPeriods :
         call' = [op |-> "isRSIWeakening", periods |-> periods,
                  result |-> HistoricalIsRSIWeakening(redis.list["rsi"], periods)]
    /\ UNCHANGED <<pc, inp, analysis, decision, rec, rsiHistory, redis, pending, pushed, bot>>

\* the caller takes the result
ReturnStore ==
    /\ call # None
    /\ call' = None
    /\ UNCHANGED <<pc, inp, analysis, decision, rec, rsiHistory, redis, pending, pushed, bot>>

NextStore ==
    \/ StoreStart \/ StoreRejected \/ StoreLPush \/ StoreLTrim
    \/ KeyExpires \/ CallGetRSIHistory \/ CallIsRSIWeakening \/ ReturnStore

SpecStore == InitStore /\ [][NextStore]_vars

(***************************************************************************)
(* HistoricalDataManager over several symbols (specification SpecKeys).    *)
(* redis.list maps every key to its list (an absent key is the empty       *)
(* list); the keys are built as the template literals of the store and     *)
(* read methods build them.  pushed[symbol][metric] is the list the        *)
(* operations on that symbol and metric alone produce.  storeIndicatorsBatch*)
(* starts its three stores together (Promise.all); their commands then     *)
(* interleave freely with those of other batches.                          *)
(***************************************************************************)
MaxBatches == 2
StoredSymbols == {"BTCUSDT", "ETHUSDT"}

prefixOf(metric) ==
    CASE metric = "rsi"        -> "rsi_history"
      [] metric = "volatility" -> "volatility_history"
      [] metric = "price"      -> "price_history"

\* mutant: the key names the metric only
keyOfMetricOnly(metric, symbol) == prefixOf(metric)

\* `rsi_history:${symbol}`, `volatility_history:${symbol}`,
\* `price_history:${symbol}`
keyOf(metric, symbol) == prefixOf(metric) \o ":" \o symbol

\* every key the manager can build, with and without a symbol part
Keys ==
    { prefixOf(m) : m \in Metrics }
      \cup { prefixOf(m) \o ":" \o s : m \in Metrics, s \in StoredSymbols }

\* samples held for every symbol at the start: one short of the capacity
BatchInitialLengths == {maxHistoryPoints - 1}

\* the indicators analyzePosition computed for the symbol
IndicatorsOf(symbol) ==
    IF symbol = "BTCUSDT" THEN [rsi |-> 35, volatility |-> 0, currentPrice |-> 100]
    ELSE [rsi |-> 40, volatility |-> 2, currentPrice |-> 50]

InitKeys ==
    /\ pc = "idle"
    /\ inp = None
    /\ analysis = None
    /\ decision = None
    /\ rec = None
    /\ rsiHistory = [s \in Symbols |-> <<>>]
    /\ call = None
    /\ bot = None
    /\ pending = NoPending
    /\ \E n \in BatchInitialLengths :
         /\ redis = [list |-> [k \in Keys |->
                                 IF \E m \in Metrics, s \in StoredSymbols : k = keyOf(m, s)
                                 THEN Fill(n) ELSE <<>>]]
         /\ pushed = [s \in StoredSymbols |-> [m \in Metrics |-> Fill(n)]]

\* storeIndicatorsBatch(symbol, indicators): storeRSI, storeVolatility and
\* storePriceUpdate are called one after the other, each running up to
\* its first await
StoreIndicatorsBatch ==
    /\ call = None
    /\ pending.started < MaxBatches
    /\ \E symbol \in StoredSymbols :
         LET id == pending.started + 1
             indicators == IndicatorsOf(symbol)
             Op(metric, value) ==
                 [id |-> id, symbol |-> symbol, metric |-> metric,
                  key |-> keyOf(metric, symbol), value |-> value, stage |-> "lPush"]
         IN  pending' = [ops |-> pending.ops \cup
                                   {Op("rsi", indicators.rsi),
                                    Op("volatility", indicators.volatility),
                                    Op("price", indicators.currentPrice)},
                         started |-> id]
    /\ UNCHANGED <<pc, inp, analysis, decision, rec, rsiHistory, call, redis, pushed, bot>>

\* await redis.lPush(key, dataPoint) of one of the stores in flight
BatchLPush ==
    /\ call = None
    /\ \E op \in pending.ops :
         /\ "symbol" \in DOMAIN op
         /\ op.stage = "lPush"
         /\ redis' = [redis EXCEPT !.list[op.key] = lPush(@, op.value)]
         /\ pushed' = [pushed EXCEPT ![op.symbol][op.metric] = lPush(@, op.value)]
         /\ pending' = [pending EXCEPT
                          !.ops = (@ \ {op}) \cup {[op EXCEPT !.stage = "lTrim"]}]
    /\ UNCHANGED <<pc, inp, analysis, decision, rec, rsiHistory, call, bot>>

\* await redis.lTrim(key, 0, this.maxHistoryPoints - 1) and
\* await redis.expire(key, ttl) of one of the stores in flight
BatchLTrim ==
    /\ call = None
    /\ \E op \in pending.ops :
         /\ "symbol" \in DOMAIN op
         /\ op.stage = "lTrim"
         /\ redis' = [redis EXCEPT !.list[op.key] = lTrim(@, maxHistoryPoints - 1)]
         /\ pushed' = [pushed EXCEPT
                         ![op.symbol][op.metric] = lTrim(@, maxHistoryPoints - 1)]
         /\ pending' = [pending EXCEPT !.ops = @ \ {op}]
    /\ UNCHANGED <<pc, inp, analysis, decision, rec, rsiHistory, call, bot>>

\* getRSIHistory(symbol, 2), as getPreviousRSI calls it, while stores are
\* in flight
ReadHistory ==
    /\ call = None
    /\ \E symbol \in StoredSymbols : \E metric \in {"rsi"} : \E count \in {2} :
         call' = [op |-> "readHistory", symbol |-> symbol, metric |-> metric,
                  count |-> count,
                  result |-> getRSIHistory(redis.list[keyOf(metric, symbol)], count)]
    /\ UNCHANGED <<pc, inp, analysis, decision, rec, rsiHistory, redis, pending, pushed, bot>>

NextKeys ==
    StoreIndicatorsBatch \/ BatchLPush \/ BatchLTrim \/ ReadHistory \/ ReturnStore

SpecKeys == InitKeys /\ [][NextKeys]_vars

(***************************************************************************)
(* EnhancedTradingBot: buying, smart selling and the active-position map   *)
(* (specification SpecBot).  bot.attempts[c] is the sequence of requests   *)
(* the c-th call of executeSmartSell, its timer included, sent to the      *)
(* exchange (bot.attempts[0]: the buys), each with the handler it was sent *)
(* from and whether the exchange accepted it.  A market order that is      *)
(* accepted is executed at once; a limit order that is accepted is open    *)
(* until it fills or is cancelled.                                         *)
(***************************************************************************)
\* the delay of the setTimeout of the SMART_LIMIT strategy, in ms
smartLimitTimeout == 120000

\* paths of orderSchema with required: true
RequiredOrderPaths ==
    {"symbol", "orderId", "side", "quantity", "originalQuantity", "price"}
\* paths of the document placeBuyOrder builds
BuyOrderPaths ==
    {"symbol", "orderId", "side", "type", "quantity", "price", "status", "timestamp",
     "strategy", "stopLoss", "takeProfit", "expectedHoldingPeriod", "confidence",
     "signals"}
\* paths of the document executeSmartSell builds
SellOrderPaths ==
    {"symbol", "orderId", "side", "type", "quantity", "price", "status", "timestamp",
     "pnl", "pnlPercentage", "sellReason", "sellConfidence", "sellUrgency",
     "smartSellDetails", "holdingPeriodMs", "buyOrderId", "strategy",
     "executionStrategy"}

\* document.save(): mongoose validates the required paths, then writes to
\* the database; TRUE when the promise resolves
save(paths, dbUp) == RequiredOrderPaths \subseteq paths /\ dbUp

addActivePosition(positions, position) == Append(positions, position)

removeActivePosition(positions, orderId) ==
    SelectSeq(positions, LAMBDA q : q.orderId # orderId)

\* mutant: a LOW urgency sell takes the strategy of a MEDIUM one
executionStrategyOfLowSmart(urgency) ==
    IF urgency = "HIGH" THEN "MARKET" ELSE "SMART_LIMIT"

\* the strategy executeSmartSell chooses from the urgency
executionStrategyOf(urgency) ==
    IF urgency = "HIGH" THEN "MARKET"
    ELSE IF urgency = "MEDIUM" THEN "SMART_LIMIT"
    ELSE "LIMIT"

\* mutant: the catch block falls back whatever the urgency
emergencyFallbackAlways(urgency) == TRUE

\* the test of the catch block of executeSmartSell before its market sell
emergencyFallback(urgency) == urgency = "HIGH"

Attempt(c, side, type, origin, orderId, ok) ==
    [call |-> c, side |-> side, type |-> type, origin |-> origin,
     position |-> orderId, ok |-> ok]

\* placeBuyOrder; oc gives the outcome of marketBuy and the state of the
\* database
placeBuyOrder(b, symbol, oc) ==
    LET orderId == b.nextOrderId
        bought  == [b EXCEPT !.attempts[0] = Append(@, Attempt(0, "BUY", "MARKET",
                                                        "placeBuyOrder", orderId, oc.buy)),
                             !.nextOrderId = @ + 1]
    IN  IF oc.buy /\ save(BuyOrderPaths, oc.dbUp)
        THEN [bought EXCEPT !.activePositions[symbol] =
                                addActivePosition(@, [orderId |-> orderId])]
        ELSE bought

\* executeSmartSell up to its return; oc gives the outcome of the first
\* order, of the market order of the inner catch, of the market order of
\* the outer catch, and the state of the database
executeSmartSell(b, symbol, position, recommendation, oc) ==
    LET c == Len(b.sells) + 1
        urgency == recommendation.urgency
        executionStrategy == executionStrategyOf(urgency)
        A(type, origin, ok) == Attempt(c, "SELL", type, origin, position.orderId, ok)
        tried ==
            CASE executionStrategy = "MARKET" -> <<A("MARKET", "try", oc.first)>>
              [] executionStrategy = "SMART_LIMIT" ->
                   IF oc.first THEN <<A("LIMIT", "try", TRUE)>>
                   ELSE <<A("LIMIT", "try", FALSE), A("MARKET", "inner catch", oc.inner)>>
              [] executionStrategy = "LIMIT" -> <<A("LIMIT", "try", oc.first)>>
        ordered  == tried[Len(tried)].ok
        limit    == IF executionStrategy # "MARKET" /\ oc.first THEN "NEW" ELSE "NONE"
        timer    == IF executionStrategy = "SMART_LIMIT" /\ oc.first
                    THEN [state |-> "set", delay |-> smartLimitTimeout]
                    ELSE [state |-> "none", delay |-> 0]
        saved    == ordered /\ save(SellOrderPaths, oc.dbUp)
        rescue   == IF ~saved /\ emergencyFallback(urgency)
                    THEN <<A("MARKET", "catch", oc.outer)>> ELSE <<>>
    IN  [b EXCEPT
           !.attempts = [k \in 0..c |-> IF k = c THEN tried \o rescue
                                         ELSE b.attempts[k]],
           !.sells = Append(@, [position |-> position.orderId, urgency |-> urgency,
                                reason |-> recommendation.reason, limit |-> limit,
                                timer |-> timer, seen |-> "NONE",
                                logged |-> ~saved, removed |-> saved]),
           !.activePositions[symbol] =
               IF saved THEN removeActivePosition(@, position.orderId) ELSE @]

\* the callback of setTimeout for call c; oc gives the outcome of
\* orderStatus, cancel and marketSell
smartLimitTimer(b, c, oc) ==
    LET this == b.sells[c]
        A(type, ok) == Attempt(c, "SELL", type, "timer", this.position, ok)
        fired == [b EXCEPT !.sells[c].timer.state = "fired"]
    IN  IF ~oc.status THEN fired
        ELSE IF this.limit = "FILLED"
        THEN [fired EXCEPT !.sells[c].seen = "FILLED"]
        ELSE IF ~oc.cancel
        THEN [fired EXCEPT !.sells[c].seen = this.limit,
                           !.attempts[c] = Append(@, A("CANCEL", FALSE))]
        ELSE [fired EXCEPT !.sells[c].seen = this.limit,
                           !.sells[c].limit = "CANCELED",
                           !.attempts[c] = @ \o <<A("CANCEL", TRUE), A("MARKET", oc.market)>>]

\* an analysis in which exactly the k-th rule of the cascade fires
Verdicts(k) ==
    [emergencySell |-> [shouldSell |-> k = 1, confidence |-> 900],
     trendSell     |-> [shouldSell |-> k = 2, confidence |-> 700],
     stopLoss      |-> [shouldSell |-> k = 3, confidence |-> 1000],
     timeBasedSell |-> [shouldSell |-> k = 4, confidence |-> IF k = 4 THEN 800 ELSE 0],
     takeProfit    |-> [shouldSell |-> k = 5, confidence |-> 1000],
     holdConfidence |-> 500]
\* the recommendations evaluateAllPositions passes to executeSmartSell
SellRecommendations ==
    { getPositionRecommendation(shouldSellPosition(Verdicts(k))) : k \in 1..5 }

\* positions loadActivePositions finds in the cache at start
LoadedPositions == { <<>>, <<[orderId |-> 1]>>, <<[orderId |-> 1], [orderId |-> 2]>> }

InitBot ==
    /\ pc = "idle"
    /\ inp = None
    /\ analysis = None
    /\ decision = None
    /\ rec = None
    /\ rsiHistory = [s \in Symbols |-> <<>>]
    /\ call = None
    /\ redis = None
    /\ pending = NoPending
    /\ pushed = None
    /\ \E loaded \in LoadedPositions :
         bot = [activePositions |-> [s \in Symbols |-> loaded],
                held |-> { loaded[k].orderId : k \in 1..Len(loaded) },
                nextOrderId |-> Len(loaded) + 1,
                attempts |-> [c \in {0} |-> <<>>],
                sells |-> <<>>]

Buys == { a \in 1..Len(bot.attempts[0]) : bot.attempts[0][a].side = "BUY" }

\* analyzeSymbolForTrading places a buy order
PlaceBuyOrder ==
    /\ Cardinality(Buys) < MaxBuys
    /\ \E symbol \in Symbols : \E oc \in [buy : BOOLEAN, dbUp : BOOLEAN] :
         LET after == placeBuyOrder(bot, symbol, oc)
         IN  bot' = [after EXCEPT !.held = IF oc.buy THEN @ \cup {bot.nextOrderId} ELSE @]
    /\ UNCHANGED <<pc, inp, analysis, decision, rec, rsiHistory, call, redis, pending, pushed>>

\* evaluateAllPositions received a SELL recommendation for a position of
\* the map and awaits executeSmartSell
ExecuteSmartSell ==
    /\ Len(bot.sells) < MaxSells
    /\ \E symbol \in Symbols : \E k \in 1..Len(bot.activePositions[symbol]) :
       \E recommendation \in SellRecommendations :
       \E oc \in [first : BOOLEAN, inner : BOOLEAN, outer : BOOLEAN, dbUp : BOOLEAN] :
         bot' = executeSmartSell(bot, symbol, bot.activePositions[symbol][k],
                                 recommendation, oc)
    /\ UNCHANGED <<pc, inp, analysis, decision, rec, rsiHistory, call, redis, pending, pushed>>

\* two minutes after a SMART_LIMIT order was accepted its timer fires
SmartLimitTimerFires ==
    /\ \E c \in 1..Len(bot.sells) :
         /\ bot.sells[c].timer.state = "set"
         /\ \E oc \in [status : BOOLEAN, cancel : BOOLEAN, market : BOOLEAN] :
              bot' = smartLimitTimer(bot, c, oc)
    /\ UNCHANGED <<pc, inp, analysis, decision, rec, rsiHistory, call, redis, pending, pushed>>

\* the exchange fills an open limit order
LimitOrderFills ==
    /\ \E c \in 1..Len(bot.sells) :
         /\ bot.sells[c].limit = "NEW"
         /\ bot' = [bot EXCEPT !.sells[c].limit = "FILLED"]
    /\ UNCHANGED <<pc, inp, analysis, decision, rec, rsiHistory, call, redis, pending, pushed>>

NextBot == PlaceBuyOrder \/ ExecuteSmartSell \/ SmartLimitTimerFires \/ LimitOrderFills

SpecBot == InitBot /\ [][NextBot]_vars

(***************************************************************************)
(* Technical indicators (specification SpecIndicators)                     *)
(*                                                                         *)
(* The repository holds two functions named calculateSMA: the one of       *)
(* src/utils/technicalAnalysis.js, which calculateTechnicalIndicators of   *)
(* that file calls, and the exported one of the extended indicator         *)
(* utilities (part_008).  A mean is kept as the exact fraction num / den.  *)
(***************************************************************************)
MaxLen == 3
SeriesValues == {0, 10, 25, 40}
Series == UNION { [1..n -> SeriesValues] : n \in 0..MaxLen }
\* periods up to one more than the longest series
Periods == 1..(MaxLen + 1)

\* values.slice(-period)
slice(values, period) ==
    IF period >= Len(values) THEN values
    ELSE SubSeq(values, Len(values) - period + 1, Len(values))

\* values.reduce((a, b) => a + b, 0)
RECURSIVE reduce(_, _)
reduce(values, acc) ==
    IF values = <<>> THEN acc ELSE reduce(Tail(values), acc + Head(values))

\* calculateSMA of src/utils/technicalAnalysis.js
calculateSMA(values, period) ==
    IF Len(values) < period THEN [num |-> 0, den |-> 1]
    ELSE [num |-> reduce(slice(values, period), 0), den |-> period]

\* calculateSMA of the extended indicator utilities:
\* values[values.length - 1] || 0 when the series is short
calculateSMA_part_008(values, period) ==
    IF Len(values) < period
    THEN LET last == IF Len(values) = 0 THEN Undefined
                     ELSE Number(values[Len(values)])
         IN  [num |-> IF ToBoolean(last) THEN last.value ELSE 0, den |-> 1]
    ELSE [num |-> reduce(slice(values, period), 0), den |-> period]

IndicatorFiles == {"src/utils/technicalAnalysis.js", "part_008"}

InitIndicators ==
    /\ pc = "idle"
    /\ inp = None /\ analysis = None /\ decision = None /\ rec = None
    /\ rsiHistory = [s \in Symbols |-> <<>>]
    /\ redis = None /\ pending = NoPending /\ pushed = None /\ bot = None
    /\ call \in [op : {"calculateSMA"}, file : IndicatorFiles, values : Series,
                 period : Periods, done : {FALSE}, result : {[num |-> 0, den |-> 1]}]

\* calculateSMA(values, period)
CallCalculateSMA ==
    /\ call.op = "calculateSMA"
    /\ ~call.done
    /\ call' = [call EXCEPT !.done = TRUE,
                  !.result = IF call.file = "part_008"
                             THEN calculateSMA_part_008(call.values, call.period)
                             ELSE calculateSMA(call.values, call.period)]
    /\ UNCHANGED <<pc, inp, analysis, decision, rec, rsiHistory, redis, pending, pushed, bot>>

NextIndicators == CallCalculateSMA

SpecIndicators == InitIndicators /\ [][NextIndicators]_vars

(***************************************************************************)
(* EnhancedTradingBot: the cron-driven trading cycle and the risk check    *)
(* (specification SpecTrader).  A cycle is the cron callback, then         *)
(* executeTradingCycleWithSmartLoss up to its loop over                    *)
(* config.activeSymbols, then one analyzeSymbolForTrading per symbol; the  *)
(* awaits between these steps let stop() and checkRiskLimits() run in     *)
(* between.  Money is in cents.  No Order document of this bot is stored   *)
(* (save), so neither a buy nor a sell of a cycle changes activePositions  *)
(* or performanceMetrics; the executed buys are kept in bot.held and       *)
(* bot.buys, which the code does not have.                                 *)
(***************************************************************************)
\* trading cycles started in one exploration
MaxCycles == 2

\* config.activeSymbols
activeSymbols == <<"BTCUSDT", "ETHUSDT">>
TraderSymbols == { activeSymbols[k] : k \in 1..Len(activeSymbols) }

\* EnhancedTradingConfig documents: capital of $50, maxLossPercentage 20,
\* stopLossPercentage 8, position sizes $5..$15 and totalLossEmergencyStop 18
\* are the schema defaults; the limits of the order counts are small values
\* of their ranges; sizing is risk_parity over 5 symbols (default) or
\* equal_weight over 1, and the risk counts realized losses only (default)
\* or half of the unrealized ones too
TraderConfigs ==
    { [totalCapital |-> 5000, maxLossPercentage |-> 20, stopLossPercentage |-> 8,
       maxConcurrentOrders |-> 2, maxOrdersPerSymbol |-> 1,
       reservePercentage |-> 10, maxActiveSymbols |-> sz[2], strategy |-> sz[1],
       minPositionSize |-> 500, maxPositionSize |-> 1500,
       onlyRealizedLosses |-> realized, includeUnrealizedInRisk |-> TRUE,
       unrealizedLossWeight |-> 50,
       totalLossEmergencyStop |-> 18, pauseAfterConsecutiveLosses |-> 3] :
      sz \in {<<"risk_parity", 5>>, <<"equal_weight", 1>>}, realized \in BOOLEAN }

\* today's SELL orders Order.find returns: none, or one an earlier run
\* closed at a loss of $7 or of $9.50
TodaysOrders ==
    {<<>>} \cup { <<[side |-> "SELL", pnl |-> p]>> : p \in {-700, -950} }

\* the hash 'active_positions' loadActivePositions read at start: nothing,
\* one position, or one position in each symbol; entryPrice in cents per
\* unit
CachedPositions ==
    { [s \in TraderSymbols |-> <<>>],
      [s \in TraderSymbols |->
          IF s = "BTCUSDT" THEN <<[orderId |-> 1, entryPrice |-> 100, quantity |-> 15]>>
          ELSE <<>>],
      [s \in TraderSymbols |->
          IF s = "BTCUSDT" THEN <<[orderId |-> 1, entryPrice |-> 100, quantity |-> 15]>>
          ELSE <<[orderId |-> 2, entryPrice |-> 100, quantity |-> 15]>>] }

\* priceCache of the websocket trade stream, in cents per unit
CachedPrices == {100, 70}

\* calculateRealizedLoss(orders): the losses of the losing orders
RECURSIVE calculateRealizedLoss(_)
calculateRealizedLoss(orders) ==
    IF orders = <<>> THEN 0
    ELSE (IF Head(orders).side = "SELL" /\ Head(orders).pnl < 0
          THEN Abs(Head(orders).pnl) ELSE 0)
           + calculateRealizedLoss(Tail(orders))

\* calculateTotalRisk(realizedLoss, unrealizedLoss); the weight is in percent
calculateTotalRisk(cfg, realizedLoss, unrealizedLoss) ==
    LET weightedUnrealizedLoss == (unrealizedLoss * cfg.unrealizedLossWeight) \div 100
    IN  IF cfg.onlyRealizedLosses THEN realizedLoss
        ELSE realizedLoss + (IF cfg.includeUnrealizedInRisk THEN weightedUnrealizedLoss ELSE 0)

\* the loss of the positions of one list at currentPrice
RECURSIVE unrealizedLossOf(_, _)
unrealizedLossOf(positions, currentPrice) ==
    IF positions = <<>> THEN 0
    ELSE LET position      == Head(positions)
             positionValue == position.entryPrice * position.quantity
             currentValue  == currentPrice * position.quantity
             unrealizedPnl == currentValue - positionValue
         IN  (IF unrealizedPnl < 0 THEN Abs(unrealizedPnl) ELSE 0)
               + unrealizedLossOf(Tail(positions), currentPrice)

\* the sum of f over the active symbols
RECURSIVE overSymbols(_, _)
overSymbols(f, k) ==
    IF k = 0 THEN 0 ELSE f[activeSymbols[k]] + overSymbols(f, k - 1)

\* updateRiskMetrics(): riskMetrics of a bot with these positions
updateRiskMetrics(b) ==
    [realizedLoss   |-> calculateRealizedLoss(b.todaysOrders),
     unrealizedLoss |->
         overSymbols([s \in TraderSymbols |->
                         unrealizedLossOf(b.activePositions[s], b.priceCache)],
                     Len(activeSymbols))]

totalRiskOf(b, riskMetrics) ==
    calculateTotalRisk(b.config, riskMetrics.realizedLoss, riskMetrics.unrealizedLoss)

\* Array.from(activePositions.values()).reduce(total + positions.length)
totalActiveOrders(b) ==
    overSymbols([s \in TraderSymbols |-> Len(b.activePositions[s])], Len(activeSymbols))

\* EnhancedTradingBot.canPlaceNewOrder(symbol); the correlation matrix is
\* empty, so isHighlyCorrelated is false
canPlaceNewOrder_bot(b, symbol) ==
    LET totalRisk == totalRiskOf(b, updateRiskMetrics(b))
    IN  IF totalRisk >= maxTotalLossAmount(b.config) THEN FALSE
        ELSE IF totalActiveOrders(b) >= b.config.maxConcurrentOrders THEN FALSE
        ELSE IF Len(b.activePositions[symbol]) >= b.config.maxOrdersPerSymbol THEN FALSE
        ELSE TRUE

\* canAcceptNewPositions(); realizedLoss / totalCapital * 100 >
\* maxLossPercentage * 0.7 is cross-multiplied
canAcceptNewPositions(b, riskMetrics) ==
    IF totalActiveOrders(b) >= b.config.maxConcurrentOrders THEN FALSE
    ELSE IF b.consecutiveLosses >= 3 THEN FALSE
    ELSE IF riskMetrics.realizedLoss * 1000
              > b.config.maxLossPercentage * 7 * b.config.totalCapital THEN FALSE
    ELSE TRUE

\* the strategies of determineStrategies that analyzeSymbolForTrading acts
\* on: action BUY with confidence > 0.6.  signals are the strategies whose
\* evaluation of the indicators gave that; swing_trade is asked only with
\* fewer than 2 positions of the symbol, dca only with at least one
determineStrategies(signals, existingPositions) ==
    SelectSeq(<<"day_trade", "swing_trade", "dca">>,
              LAMBDA t : /\ t \in signals
                         /\ t = "swing_trade" => existingPositions < 2
                         /\ t = "dca" => existingPositions > 0)

\* the signals one candle window can give together: an uptrend above sma20
\* (swing_trade) excludes a price 5% below sma20 (dca)
BuySignals == { {}, {"day_trade"}, {"day_trade", "swing_trade"}, {"day_trade", "dca"} }

\* volatilityCache.get(symbol) || 0.1 in percent, and the win rate of a
\* symbol without history in thousandths
traderVolatility == 10
traderWinRate == Number(500)

InitTrader ==
    /\ pc = "idle"
    /\ inp = None
    /\ analysis = None
    /\ decision = None
    /\ rec = None
    /\ rsiHistory = [s \in Symbols |-> <<>>]
    /\ call = None
    /\ redis = None
    /\ pending = NoPending
    /\ pushed = <<>>
    /\ \E cfg \in TraderConfigs, orders \in TodaysOrders,
          cached \in CachedPositions, price \in CachedPrices :
         bot = [config          |-> cfg,
                todaysOrders    |-> orders,
                activePositions |-> cached,
                priceCache      |-> price,
                isRunning       |-> TRUE,
                cronJobs        |-> "started",
                paused          |-> FALSE,
                consecutiveLosses |-> 0,
                riskMetrics     |-> [realizedLoss |-> 0, unrealizedLoss |-> 0],
                cycle           |-> [pc |-> "idle", k |-> 0],
                started         |-> 0,
                evaluated       |-> 0,
                held            |-> [s \in TraderSymbols |-> Len(cached[s])],
                buys            |-> {},
                emergency       |-> None]

\* isTradingPaused(): TRUE when the cycle returns before evaluateAllPositions
isTradingPaused(b) ==
    b.paused \/ b.consecutiveLosses >= b.config.pauseAfterConsecutiveLosses

\* the trading cron job fires: the callback tests isRunning, then
\* executeTradingCycleWithSmartLoss runs updateRiskMetrics, isTradingPaused,
\* evaluateAllPositions, assessMarketConditions and canAcceptNewPositions
TradingCronTick ==
    /\ bot.cronJobs = "started"
    /\ bot.isRunning
    /\ bot.cycle.pc = "idle"
    /\ bot.started < MaxCycles
    /\ LET riskMetrics == updateRiskMetrics(bot)
       IN  bot' = [bot EXCEPT
                     !.started = @ + 1,
                     !.riskMetrics = riskMetrics,
                     !.paused = isTradingPaused(bot),
                     !.evaluated = IF isTradingPaused(bot) THEN @ ELSE @ + 1,
                     !.cycle = IF ~isTradingPaused(bot) /\ canAcceptNewPositions(bot, riskMetrics)
                               THEN [pc |-> "analyze", k |-> 1]
                               ELSE [pc |-> "idle", k |-> 0]]
    /\ UNCHANGED <<pc, inp, analysis, decision, rec, rsiHistory, call, redis, pending, pushed>>

\* analyzeSymbolForTrading(symbol, marketCondition) of the next symbol of
\* the loop: canPlaceNewOrder once, then placeBuyOrder for every BUY
\* strategy; marketBuy opens the position, orderDoc.save() rejects
AnalyzeSymbolForTrading ==
    /\ bot.cycle.pc = "analyze"
    /\ \E signals \in BuySignals :
         LET symbol       == activeSymbols[bot.cycle.k]
             positions    == bot.activePositions[symbol]
             canTrade     == canPlaceNewOrder_bot(bot, symbol)
             riskMetrics  == updateRiskMetrics(bot)
             positionSize == calculateOptimalPositionSize(bot.config, traderVolatility,
                                                          traderWinRate)
             strategies   == IF canTrade THEN determineStrategies(signals, Len(positions))
                             ELSE <<>>
             placed       == { [symbol       |-> symbol,
                                strategy     |-> strategies[i],
                                positionSize |-> positionSize,
                                totalRisk    |-> totalRiskOf(bot, riskMetrics),
                                activeOrders |-> totalActiveOrders(bot),
                                isRunning    |-> bot.isRunning] :
                               i \in 1..Len(strategies) }
             tracked      == IF save(BuyOrderPaths, TRUE)
                             THEN [bot.activePositions EXCEPT
                                     ![symbol] = @ \o [i \in 1..Len(strategies) |->
                                                         [orderId |-> 0, entryPrice |-> bot.priceCache,
                                                          quantity |-> positionSize \div bot.priceCache]]]
                             ELSE bot.activePositions
         IN  bot' = [bot EXCEPT
                       !.riskMetrics = riskMetrics,
                       !.held[symbol] = @ + Len(strategies),
                       !.buys = @ \cup placed,
                       !.activePositions = tracked,
                       !.cycle = IF bot.cycle.k < Len(activeSymbols)
                                 THEN [pc |-> "analyze", k |-> bot.cycle.k + 1]
                                 ELSE [pc |-> "idle", k |-> 0]]
    /\ UNCHANGED <<pc, inp, analysis, decision, rec, rsiHistory, call, redis, pending, pushed>>

\* stop(), as the configuration reset route and the shutdown of the process
\* call it: isRunning = false and the cron jobs are stopped;
\* saveActivePositions writes the map, which is the one read at start
stop(b) == [b EXCEPT !.isRunning = FALSE, !.cronJobs = "stopped"]

Stop ==
    /\ bot.isRunning
    /\ bot' = stop(bot)
    /\ UNCHANGED <<pc, inp, analysis, decision, rec, rsiHistory, call, redis, pending, pushed>>

\* the positions of activePositions.entries()
positionsOf(b) ==
    UNION { { b.activePositions[s][i] : i \in 1..Len(b.activePositions[s]) } :
            s \in TraderSymbols }

\* emergencyStop(reason): stop(), then placeSellOrder for every position of
\* the map; each marketSell is sent and closes the position on the
\* exchange, sellOrder.save() rejects and the catch of placeSellOrder logs it
emergencyStop(b, reason) ==
    [stop(b) EXCEPT
       !.held = [s \in TraderSymbols |-> @[s] - Len(b.activePositions[s])],
       !.emergency = [reason |-> reason,
                      active |-> positionsOf(b),
                      sells  |-> positionsOf(b)]]

\* the risk cron job fires: checkRiskLimits()
CheckRiskLimits ==
    /\ bot.cronJobs = "started"
    /\ bot.isRunning
    /\ \E flashCrash \in BOOLEAN :
         LET riskMetrics == updateRiskMetrics(bot)
             totalRisk   == totalRiskOf(bot, riskMetrics)
             b           == [bot EXCEPT !.riskMetrics = riskMetrics]
         IN  bot' = IF totalRisk * 100
                         >= b.config.totalLossEmergencyStop * b.config.totalCapital
                    THEN emergencyStop(b, "TOTAL_RISK_EXCEEDED")
                    ELSE IF flashCrash THEN [b EXCEPT !.paused = TRUE]
                    ELSE b
    /\ UNCHANGED <<pc, inp, analysis, decision, rec, rsiHistory, call, redis, pending, pushed>>

\* the key 'trading_paused' expires
PauseExpires ==
    /\ bot.paused
    /\ bot' = [bot EXCEPT !.paused = FALSE]
    /\ UNCHANGED <<pc, inp, analysis, decision, rec, rsiHistory, call, redis, pending, pushed>>

NextTrader ==
    TradingCronTick \/ AnalyzeSymbolForTrading \/ Stop \/ CheckRiskLimits \/ PauseExpires

SpecTrader == InitTrader /\ [][NextTrader]_vars

(***************************************************************************)
(* EnhancedTradingBot: the active-position map and its copy in redis       *)
(* (specification SpecPositions).  The map is a function whose domain is   *)
(* the set of its keys; the hash 'active_positions' is a function from its *)
(* fields to the stored strings.  The fields of a position are finite      *)
(* numbers and strings, which JSON.stringify and JSON.parse give back      *)
(* unchanged; the stored string is modelled by the list it encodes.        *)
(***************************************************************************)
\* calls of addActivePosition in one exploration
MaxAdds == 3

PositionSymbols == {"BTCUSDT", "ETHUSDT"}

EmptyMap == [s \in {} |-> <<>>]

\* addActivePosition(symbol, position) on the map
addActivePosition_map(activePositions, symbol, position) ==
    IF symbol \notin DOMAIN activePositions
    THEN [s \in DOMAIN activePositions \cup {symbol} |->
            IF s = symbol THEN addActivePosition(<<>>, position) ELSE activePositions[s]]
    ELSE [activePositions EXCEPT ![symbol] = addActivePosition(@, position)]

\* removeActivePosition(symbol, orderId) on the map: a symbol whose list
\* becomes empty is deleted
removeActivePosition_map(activePositions, symbol, orderId) ==
    IF symbol \in DOMAIN activePositions
    THEN LET filteredPositions == removeActivePosition(activePositions[symbol], orderId)
         IN  IF Len(filteredPositions) = 0
             THEN [s \in DOMAIN activePositions \ {symbol} |-> activePositions[s]]
             ELSE [activePositions EXCEPT ![symbol] = filteredPositions]
    ELSE activePositions

JSON_stringify(positions) == [json |-> positions]
JSON_parse(positionsData) == positionsData.json

\* saveActivePositions(): hset of one field for every key of the map
saveActivePositions(activePositions, hash) ==
    [s \in DOMAIN hash \cup DOMAIN activePositions |->
        IF s \in DOMAIN activePositions THEN JSON_stringify(activePositions[s])
        ELSE hash[s]]

\* loadActivePositions() of a bot whose map is empty: hgetall, then set of
\* every field
loadActivePositions(hash) == [s \in DOMAIN hash |-> JSON_parse(hash[s])]

InitPositions ==
    /\ pc = "idle"
    /\ inp = None
    /\ analysis = None
    /\ decision = None
    /\ rec = None
    /\ rsiHistory = [s \in Symbols |-> <<>>]
    /\ call = None
    /\ pending = NoPending
    /\ pushed = <<>>
    /\ redis = [hash |-> EmptyMap]
    /\ bot = [activePositions |-> EmptyMap, added |-> 0, saved |-> FALSE, reloaded |-> None]

AddActivePosition ==
    /\ bot.added < MaxAdds
    /\ \E symbol \in PositionSymbols :
         bot' = [activePositions |->
                    addActivePosition_map(bot.activePositions, symbol,
                                          [orderId |-> bot.added + 1]),
                 added |-> bot.added + 1, saved |-> FALSE, reloaded |-> None]
    /\ UNCHANGED <<pc, inp, analysis, decision, rec, rsiHistory, call, redis, pending, pushed>>

RemoveActivePosition ==
    /\ \E symbol \in DOMAIN bot.activePositions :
         \E i \in 1..Len(bot.activePositions[symbol]) :
           bot' = [bot EXCEPT
                     !.activePositions =
                         removeActivePosition_map(@, symbol,
                                                  bot.activePositions[symbol][i].orderId),
                     !.saved = FALSE, !.reloaded = None]
    /\ UNCHANGED <<pc, inp, analysis, decision, rec, rsiHistory, call, redis, pending, pushed>>

\* saveActivePositions(); when redis rejects the first hset the catch block
\* logs it and nothing is written
SaveActivePositions ==
    /\ \E ok \in BOOLEAN :
         /\ redis' = IF ok THEN [hash |-> saveActivePositions(bot.activePositions, redis.hash)]
                     ELSE redis
         /\ bot' = [bot EXCEPT !.saved = ok, !.reloaded = None]
    /\ UNCHANGED <<pc, inp, analysis, decision, rec, rsiHistory, call, pending, pushed>>

\* loadActivePositions() in a new bot that reads the same redis
LoadActivePositions ==
    /\ bot.reloaded = None
    /\ bot' = [bot EXCEPT !.reloaded = loadActivePositions(redis.hash)]
    /\ UNCHANGED <<pc, inp, analysis, decision, rec, rsiHistory, call, redis, pending, pushed>>

NextPositions ==
    AddActivePosition \/ RemoveActivePosition \/ SaveActivePositions \/ LoadActivePositions

SpecPositions == InitPositions /\ [][NextPositions]_vars

(***************************************************************************)
(* EnhancedTradingBot: the pause after consecutive losses (specification   *)
(* SpecPause, and SpecPauseFair with the schedule of the cron job and the  *)
(* expiry of the redis key).  updatePerformanceMetrics is the operation    *)
(* the sell paths call with the pnl of a recorded sale; the cycle is the   *)
(* part of executeTradingCycleWithSmartLoss up to evaluateAllPositions.    *)
(***************************************************************************)
\* calls of updatePerformanceMetrics in one exploration
MaxRecorded == 3

\* pnl of a recorded sale, in cents
PnLs == {-200, -50, 0, 150}

\* updatePerformanceMetrics(pnl, reason, confidence): the counters the
\* pause reads
updatePerformanceMetrics(performanceMetrics, pnl) ==
    [totalTrades       |-> performanceMetrics.totalTrades + 1,
     totalReturn       |-> performanceMetrics.totalReturn + pnl,
     winningTrades     |-> IF pnl > 0 THEN performanceMetrics.winningTrades + 1
                           ELSE performanceMetrics.winningTrades,
     consecutiveLosses |-> IF pnl > 0 THEN 0
                           ELSE performanceMetrics.consecutiveLosses + 1]

InitPause ==
    /\ pc = "idle"
    /\ inp = None
    /\ analysis = None
    /\ decision = None
    /\ rec = None
    /\ rsiHistory = [s \in Symbols |-> <<>>]
    /\ call = None
    /\ redis = None
    /\ pending = NoPending
    /\ pushed = <<>>
    /\ bot = [config             |-> [pauseAfterConsecutiveLosses |-> 3],
              performanceMetrics |-> [totalTrades |-> 0, totalReturn |-> 0,
                                      winningTrades |-> 0, consecutiveLosses |-> 0],
              consecutiveLosses  |-> 0,
              paused             |-> FALSE,
              lastCycle          |-> "none"]

UpdatePerformanceMetrics ==
    /\ bot.performanceMetrics.totalTrades < MaxRecorded
    /\ \E pnl \in PnLs :
         LET performanceMetrics == updatePerformanceMetrics(bot.performanceMetrics, pnl)
         IN  bot' = [bot EXCEPT
                       !.performanceMetrics = performanceMetrics,
                       !.consecutiveLosses = performanceMetrics.consecutiveLosses]
    /\ UNCHANGED <<pc, inp, analysis, decision, rec, rsiHistory, call, redis, pending, pushed>>

\* a trading cycle: isTradingPaused() returns true while the key
\* 'trading_paused' is alive, and sets the key again when consecutiveLosses
\* has reached the threshold; otherwise evaluateAllPositions runs
TradingCycle ==
    /\ bot' = [bot EXCEPT
                 !.paused = isTradingPaused(bot),
                 !.lastCycle = IF isTradingPaused(bot) THEN "paused" ELSE "evaluated"]
    /\ UNCHANGED <<pc, inp, analysis, decision, rec, rsiHistory, call, redis, pending, pushed>>

NextPause == UpdatePerformanceMetrics \/ TradingCycle \/ PauseExpires

SpecPause == InitPause /\ [][NextPause]_vars

\* the cron job starts a cycle every 15 minutes and redis drops the key
\* after pauseDurationMinutes
SpecPauseFair == SpecPause /\ WF_vars(TradingCycle) /\ WF_vars(PauseExpires)

(***************************************************************************)
(* Properties of the decision engine (specification Spec)                  *)
(***************************************************************************)
Evaluated == pc = "done"

\* the five rules in cascade order, with the verdict analyzePosition gave
RuleOrder ==
    <<"EMERGENCY_SELL", "TREND_REVERSAL", "STOP_LOSS", "TIME_BASED_LOSS", "TAKE_PROFIT">>
Fired(k) ==
    CASE k = 1 -> analysis.emergencySell.shouldSell
      [] k = 2 -> analysis.trendSell.shouldSell
      [] k = 3 -> analysis.stopLoss.shouldSell
      [] k = 4 -> analysis.timeBasedSell.shouldSell
      [] k = 5 -> analysis.takeProfit.shouldSell

\* loss and gain of the evaluated position, stated on its prices
\* (percent * entryPrice on both sides)
PnlBelow(pct) ==
    (inp.currentPrice - inp.position.entryPrice) * 100 < pct * inp.position.entryPrice
PnlAtMost(pct) ==
    (inp.currentPrice - inp.position.entryPrice) * 100 <= pct * inp.position.entryPrice
PnlAbove(pct) ==
    (inp.currentPrice - inp.position.entryPrice) * 100 > pct * inp.position.entryPrice

\* C1: the verdict is that of the first rule that fires in the order
\* Emergency, Trend-Reversal, Stop-Loss, Time-Based, Take-Profit; the
\* outcome is HOLD only when none of the five fires; when the emergency and
\* the trend-reversal check both fire the reason is EMERGENCY_SELL.
C1_FirstFiringRuleWins ==
    Evaluated =>
      /\ \A k \in 1..5 :
           (Fired(k) /\ \A j \in 1..(k - 1) : ~Fired(j))
             => /\ decision.shouldSell
                /\ decision.reason = RuleOrder[k]
                /\ rec.action = "SELL"
                /\ rec.reason = RuleOrder[k]
      /\ (\A k \in 1..5 : ~Fired(k)) <=> (~decision.shouldSell /\ decision.reason = "HOLD")
      /\ (\A k \in 1..5 : ~Fired(k)) <=> rec.action = "HOLD"
      /\ (Fired(1) /\ Fired(2)) => rec.reason = "EMERGENCY_SELL"

C1_Witness ==
    /\ Evaluated
    /\ Fired(1) /\ Fired(2) /\ Fired(3)
    /\ rec.reason = "EMERGENCY_SELL"

\* C2: the urgency of a recommendation is HIGH exactly for EMERGENCY_SELL
\* and STOP_LOSS, MEDIUM exactly for TREND_REVERSAL, LOW exactly for
\* TIME_BASED_LOSS and TAKE_PROFIT, and NONE exactly when the action is HOLD.
C2_UrgencyFollowsRule ==
    Evaluated =>
      /\ rec.urgency \in {"HIGH", "MEDIUM", "LOW", "NONE"}
      /\ rec.urgency = "HIGH"   <=> rec.reason \in {"EMERGENCY_SELL", "STOP_LOSS"}
      /\ rec.urgency = "MEDIUM" <=> rec.reason = "TREND_REVERSAL"
      /\ rec.urgency = "LOW"    <=> rec.reason \in {"TIME_BASED_LOSS", "TAKE_PROFIT"}
      /\ rec.urgency = "NONE"   <=> rec.action = "HOLD"

C2_Witness ==
    /\ Evaluated
    /\ rec.reason = "TIME_BASED_LOSS"
    /\ rec.urgency = "LOW"

\* C3 as stated: the reason of every recommendation is one of
\* EMERGENCY_SELL, TREND_REVERSAL, STOP_LOSS, TIME_BASED_LOSS, TAKE_PROFIT,
\* HOLD, and a recommendation with action HOLD has reason HOLD.
C3_ReasonInSpecSet ==
    Evaluated =>
      /\ rec.reason \in {"EMERGENCY_SELL", "TREND_REVERSAL", "STOP_LOSS",
                         "TIME_BASED_LOSS", "TAKE_PROFIT", "HOLD"}
      /\ rec.action = "HOLD" => rec.reason = "HOLD"

\* C3 amended: the reason of every recommendation is one of EMERGENCY_SELL,
\* TREND_REVERSAL, STOP_LOSS, TIME_BASED_LOSS, TAKE_PROFIT,
\* CONTINUE_POSITION; a recommendation has action HOLD exactly when its
\* reason is CONTINUE_POSITION, which is when shouldSellPosition gave HOLD.
C3_ReasonInCodeSet ==
    Evaluated =>
      /\ rec.reason \in {"EMERGENCY_SELL", "TREND_REVERSAL", "STOP_LOSS",
                         "TIME_BASED_LOSS", "TAKE_PROFIT", "CONTINUE_POSITION"}
      /\ rec.action = "HOLD" <=> rec.reason = "CONTINUE_POSITION"
      /\ rec.action = "HOLD" <=> decision.reason = "HOLD"
      /\ rec.action = "SELL" => rec.reason = decision.reason

C3_Witness ==
    /\ Evaluated
    /\ rec.action = "HOLD"
    /\ rec.reason = "CONTINUE_POSITION"
    /\ decision.reason = "HOLD"

\* the emergency triggers, stated on the inputs of the evaluation
FlashCrash ==
    /\ inp.hourly.ok
    /\ (inp.hourly.currentPrice - inp.hourly.hourAgoPrice) * 100
         < (-8) * inp.hourly.hourAgoPrice
PanicSelling ==
    /\ inp.market.indicators.rsi < 20
    /\ inp.market.indicators.volume > 2 * inp.market.indicators.volumeMA
StrongDowntrendLoss ==
    /\ analysis.trend.direction = "STRONG_DOWN"
    /\ analysis.trend.strength > 800
    /\ PnlBelow(-12)
BearishMacd ==
    /\ inp.market.indicators.macd.histogram < -2
    /\ 10 * inp.market.indicators.macd.macd < 11 * inp.market.indicators.macd.signal
BollingerBreakdown ==
    /\ 100 * (inp.market.indicators.bollinger.upper - inp.market.indicators.bollinger.lower)
         < 2 * inp.market.indicators.bollinger.middle
    /\ 100 * inp.market.indicators.currentPrice < 98 * inp.market.indicators.bollinger.lower

W(b, weight) == IF b THEN weight ELSE 0
EmergencyWeight ==
    W(FlashCrash, 900) + W(PanicSelling, 700) + W(StrongDowntrendLoss, 800)
      + W(BearishMacd, 600) + W(BollingerBreakdown, 700)
EmergencyTriggers ==
    W(FlashCrash, 1) + W(PanicSelling, 1) + W(StrongDowntrendLoss, 1)
      + W(BearishMacd, 1) + W(BollingerBreakdown, 1)

\* C4: checkEmergencyConditions fires exactly when the weights of the
\* triggers that hold (0.9, 0.7, 0.8, 0.6, 0.7) sum to more than 0.7, and
\* its confidence is that sum capped at 1.0: a flash crash alone fires with
\* confidence >= 0.9, one trigger of weight 0.6 or 0.7 alone does not fire,
\* any two triggers fire.
C4_EmergencyThreshold ==
    Evaluated =>
      /\ analysis.emergencySell.shouldSell <=> EmergencyWeight > 700
      /\ analysis.emergencySell.confidence = Min(EmergencyWeight, 1000)
      /\ FlashCrash => /\ analysis.emergencySell.shouldSell
                       /\ analysis.emergencySell.confidence >= 900
      /\ (EmergencyTriggers = 1 /\ (PanicSelling \/ BearishMacd \/ BollingerBreakdown))
           => ~analysis.emergencySell.shouldSell
      /\ EmergencyTriggers >= 2 => analysis.emergencySell.shouldSell

C4_Witness ==
    /\ Evaluated
    /\ FlashCrash /\ EmergencyTriggers = 1
    /\ inp.market.indicators.rsi = 50
    /\ rec.reason = "EMERGENCY_SELL"
    /\ rec.confidence = 900
    /\ rec.urgency = "HIGH"

\* C5: checkTrendReversal fires exactly when its confidence exceeds the
\* adaptive threshold, 0.8 for a pnl above -3% and 0.6 otherwise; a -2%
\* position whose only evidence is a DOWN trend is not sold as
\* TREND_REVERSAL, a -10% position with a DOWN trend of strength 0.6, price
\* below both SMAs and confirming volume is.
DownTrend == analysis.trend.direction \in {"DOWN", "STRONG_DOWN"}
BearishCross ==
    /\ inp.market.indicators.currentPrice < inp.market.indicators.sma20
    /\ inp.market.indicators.sma20 < inp.market.indicators.sma50
VolumeConfirms ==
    10 * inp.market.indicators.volume > 12 * inp.market.indicators.volumeMA
OnlyDownTrendEvidence ==
    /\ analysis.trend.direction = "DOWN"
    /\ ~BearishCross
    /\ ~VolumeConfirms
    /\ analysis.momentum.direction # "WEAKENING"
    /\ inp.market.indicators.rsi >= 45
    /\ ~(inp.longer.ok /\ inp.longer.trend = "DOWN")

C5_AdaptiveThreshold ==
    Evaluated =>
      /\ analysis.trendSell.shouldSell
           <=> analysis.trendSell.confidence > (IF PnlAbove(-3) THEN 800 ELSE 600)
      /\ (inp.currentPrice = 98 /\ inp.position.entryPrice = 100 /\ OnlyDownTrendEvidence)
           => /\ ~analysis.trendSell.shouldSell
              /\ rec.reason # "TREND_REVERSAL"
      /\ (/\ inp.currentPrice = 90 /\ inp.position.entryPrice = 100
          /\ analysis.trend.direction = "DOWN" /\ analysis.trend.strength = 600
          /\ BearishCross /\ VolumeConfirms)
           => /\ analysis.trendSell.shouldSell
              /\ analysis.trendSell.confidence > 600
              /\ ~analysis.emergencySell.shouldSell => rec.reason = "TREND_REVERSAL"

C5_Witness ==
    /\ Evaluated
    /\ inp.currentPrice = 90 /\ inp.position.entryPrice = 100
    /\ analysis.trend.direction = "DOWN" /\ analysis.trend.strength = 600
    /\ BearishCross /\ VolumeConfirms
    /\ rec.reason = "TREND_REVERSAL"

\* C6: the stop-loss rule fires exactly when currentPrice <= stopLoss or the
\* pnl percentage <= -stopLossPercentage, with confidence 1.0; when neither
\* the emergency nor the trend-reversal rule fires, the position
\* (entry 100, stop 92, take-profit 115) at price 90 gets STOP_LOSS with
\* confidence 1.0 and urgency HIGH.
StopScenario ==
    /\ inp.position.entryPrice = 100
    /\ inp.position.stopLoss = 92
    /\ inp.position.takeProfit = 115
    /\ inp.currentPrice = 90

C6_StopLoss ==
    Evaluated =>
      /\ analysis.stopLoss.shouldSell
           <=> (inp.currentPrice <= inp.position.stopLoss \/ PnlAtMost(-stopLossPercentage))
      /\ analysis.stopLoss.confidence = 1000
      /\ (analysis.stopLoss.shouldSell /\ ~Fired(1) /\ ~Fired(2))
           => (rec.reason = "STOP_LOSS" /\ rec.confidence = 1000 /\ rec.urgency = "HIGH")
      /\ (StopScenario /\ ~Fired(1) /\ ~Fired(2))
           => (rec.action = "SELL" /\ rec.reason = "STOP_LOSS"
               /\ rec.confidence = 1000 /\ rec.urgency = "HIGH")

C6_Witness ==
    /\ Evaluated
    /\ StopScenario
    /\ ~Fired(1) /\ ~Fired(2)
    /\ rec.reason = "STOP_LOSS"
    /\ rec.confidence = 1000
    /\ rec.urgency = "HIGH"

\* C7: an evaluation always ends with a verdict: whichever market-data
\* fetch fails, getPositionRecommendation returns a Recommendation and does
\* not reject.
C7_AlwaysAVerdict ==
    pc # "idle" =>
      /\ pc = "done"
      /\ rec # None
      /\ rec.action \in {"SELL", "HOLD"}

\* the contributions to the trend-reversal confidence other than the one
\* for sustained RSI weakness, in thousandths
OtherTrendEvidence ==
    (IF DownTrend THEN (analysis.trend.strength * 4) \div 10 ELSE 0)
      + (IF BearishCross THEN 300 ELSE 0)
      + (IF analysis.momentum.direction = "WEAKENING" /\ analysis.momentum.strength > 600
         THEN 200 ELSE 0)
      + (IF VolumeConfirms THEN 200 ELSE 0)
      + (IF analysis.pnlPercentage < -6
         THEN Min((Abs(analysis.pnlPercentage) * 1000) \div 15, 300) ELSE 0)
      + (IF inp.longer.ok /\ inp.longer.trend = "DOWN" THEN 200 ELSE 0)
\* what the store answers about the symbol once the sample of this
\* evaluation is stored
StoreReportsWeakening == HistoricalIsRSIWeakening(rsiHistory[inp.symbol], 3)

\* C22: in checkTrendReversal the contribution of 0.2 for sustained RSI
\* weakness is added only when the current RSI is below 45 and the history
\* store reports that the RSI of the symbol is weakening; when the store
\* reports no weakening, or has too little history, an RSI below 45 alone
\* adds nothing to the confidence.
C22_SustainedWeaknessNeedsHistory ==
    Evaluated =>
      analysis.trendSell.confidence
        = Min(OtherTrendEvidence
                + (IF inp.market.indicators.rsi < 45 /\ StoreReportsWeakening
                   THEN 200 ELSE 0),
              1000)

\* the RSI samples of the symbol stored before this evaluation, newest
\* first (the evaluation stored its own sample at the head)
EarlierSamples == Tail(rsiHistory[inp.symbol])
RSIRoseBy(points) ==
    /\ EarlierSamples # <<>>
    /\ inp.market.indicators.rsi - EarlierSamples[1] > points
RSIFellBy(points) ==
    /\ EarlierSamples # <<>>
    /\ EarlierSamples[1] - inp.market.indicators.rsi > points

\* C23: analyzeMomentum returns STRENGTHENING only when the MACD histogram
\* is strictly positive and the RSI rose by more than 2 points against the
\* most recently stored RSI sample of the symbol, WEAKENING only when the
\* histogram is strictly negative and the RSI fell by more than 2 points,
\* and NEUTRAL in every other case, a zero histogram and a symbol without
\* an earlier sample included; the strength stays in [0,1].
C23_MomentumDirection ==
    Evaluated =>
      LET histogram == inp.market.indicators.macd.histogram
          momentum  == analysis.momentum
      IN  /\ momentum.direction \in {"STRENGTHENING", "WEAKENING", "NEUTRAL"}
          /\ momentum.direction = "STRENGTHENING" <=> (histogram > 0 /\ RSIRoseBy(2))
          /\ momentum.direction = "WEAKENING" <=> (histogram < 0 /\ RSIFellBy(2))
          /\ momentum.strength \in 0..1000

\* C9: every confidence is in [0,1]: emergency and trend-reversal are capped
\* at 1.0, stop-loss and take-profit are 1.0, time-based is 0.8, and the
\* hold confidence is clamped to [0,1].
C9_ConfidenceInUnitInterval ==
    Evaluated =>
      /\ rec.confidence \in 0..1000
      /\ decision.confidence \in 0..1000
      /\ analysis.emergencySell.confidence \in 0..1000
      /\ analysis.trendSell.confidence \in 0..1000
      /\ analysis.holdConfidence \in 0..1000
      /\ rec.reason \in {"STOP_LOSS", "TAKE_PROFIT"} => rec.confidence = 1000
      /\ rec.reason = "TIME_BASED_LOSS" => rec.confidence = 800
      /\ rec.action = "HOLD" => rec.confidence = analysis.holdConfidence

\* a HOLD whose additive terms (0.5 + 0.3 + 0.2 + 0.2) pass 1.0
C9_Witness ==
    /\ Evaluated
    /\ rec.action = "HOLD"
    /\ analysis.trend.direction = "STRONG_UP" /\ analysis.trend.strength = 1000
    /\ analysis.momentum.direction = "STRENGTHENING" /\ analysis.momentum.strength = 1000
    /\ PnlAbove(1)
    /\ rec.confidence = 1000

\* C10: the time-based rule fires exactly when acceptLossAfterPeriod is
\* enabled, the holding time exceeds periodDays, and the holding time also
\* exceeds periodDays plus gracePeriodHours or the loss exceeds
\* acceptLossThreshold percent; it then has confidence 0.8; inside the
\* grace period a position not losing more than the threshold is not sold
\* by this rule.
PastPeriod == inp.holdingTime > periodDays * 24 * HourMs
PastGrace == inp.holdingTime > (periodDays * 24 + gracePeriodHours) * HourMs
LossExceedsThreshold ==
    (inp.position.entryPrice - inp.currentPrice) * 100
      > acceptLossThreshold * inp.position.entryPrice

C10_TimeBasedSell ==
    Evaluated =>
      /\ analysis.timeBasedSell.shouldSell
           <=> (/\ inp.acceptLossAfterPeriod
                /\ PastPeriod
                /\ (PastGrace \/ LossExceedsThreshold))
      /\ analysis.timeBasedSell.shouldSell => analysis.timeBasedSell.confidence = 800
      /\ rec.reason = "TIME_BASED_LOSS" => rec.confidence = 800
      /\ (PastPeriod /\ ~PastGrace /\ ~LossExceedsThreshold)
           => (~analysis.timeBasedSell.shouldSell /\ rec.reason # "TIME_BASED_LOSS")

\* sold inside the grace period because the loss exceeds the threshold
C10_Witness ==
    /\ Evaluated
    /\ inp.acceptLossAfterPeriod
    /\ PastPeriod /\ ~PastGrace
    /\ LossExceedsThreshold
    /\ rec.reason = "TIME_BASED_LOSS"
    /\ rec.confidence = 800

\* C11: the take-profit rule fires exactly when currentPrice >=
\* position.takeProfit or the pnl percentage >= takeProfitPercentage, with
\* confidence 1.0, and it gives the verdict only when none of the four
\* earlier rules fired.
C11_TakeProfit ==
    Evaluated =>
      /\ analysis.takeProfit.shouldSell
           <=> \/ inp.currentPrice >= inp.position.takeProfit
               \/ ~PnlBelow(takeProfitPercentage)
      /\ analysis.takeProfit.confidence = 1000
      /\ rec.reason = "TAKE_PROFIT"
           <=> (analysis.takeProfit.shouldSell /\ \A j \in 1..4 : ~Fired(j))
      /\ rec.reason = "TAKE_PROFIT"
           => (rec.action = "SELL" /\ rec.confidence = 1000 /\ rec.urgency = "LOW")

\* the 15% target is reached below the take-profit price, and the rule
\* gives the verdict
C11_Witness ==
    /\ Evaluated
    /\ inp.currentPrice < inp.position.takeProfit
    /\ ~PnlBelow(takeProfitPercentage)
    /\ rec.reason = "TAKE_PROFIT"
    /\ rec.confidence = 1000

(***************************************************************************)
(* Properties of the configuration methods (specification SpecConfig)      *)
(***************************************************************************)
\* C8: canPlaceNewOrder returns true exactly when
\* currentRisk + orderValue * stopLossPercentage / 100 <= maxTotalLossAmount
\* and activeOrdersCount < maxConcurrentOrders; it returns false whenever
\* the worst-case loss would push the total risk above maxTotalLossAmount.
\* (both sides of the budget comparison are multiplied by 100)
WithinBudget ==
    100 * call.currentRisk + call.orderValue * call.config.stopLossPercentage
      <= call.config.totalCapital * call.config.maxLossPercentage

C8_RiskBudgetAdmission ==
    (call # None /\ call.op = "canPlaceNewOrder" /\ call.done) =>
      /\ call.result
           <=> (WithinBudget /\ call.activeOrdersCount < call.config.maxConcurrentOrders)
      /\ ~WithinBudget => ~call.result

\* an order admitted with the risk exactly at the budget
C8_Witness ==
    /\ call # None /\ call.op = "canPlaceNewOrder" /\ call.done
    /\ 100 * call.currentRisk + call.orderValue * call.config.stopLossPercentage
         = call.config.totalCapital * call.config.maxLossPercentage
    /\ call.activeOrdersCount = call.config.maxConcurrentOrders - 1
    /\ call.result

\* the loss of the called position as a fraction of its cost exceeds the
\* threshold: (entryPrice - currentPrice) / entryPrice > acceptLossThreshold / 100
LossFractionExceeds ==
    (call.position.entryPrice - call.position.currentPrice) * 100
        > call.config.acceptLossThreshold * call.position.entryPrice
HeldFor == call.currentTime - call.position.entryTime
PeriodMs == call.config.periodDays * 24 * HourMs
GraceMs == call.config.gracePeriodHours * HourMs

\* C18: with the loss acceptance switched on, shouldAcceptLoss(position, now)
\* is true if and only if the position's age exceeds periodDays and either
\* the age exceeds periodDays plus gracePeriodHours or the current loss
\* fraction exceeds acceptLossThreshold; in particular a position within
\* the grace period that is in profit, or whose loss is below the
\* threshold, is not accepted as a loss.
C18_AcceptLossAfterPeriod ==
    (call # None /\ call.op = "shouldAcceptLoss" /\ call.done
       /\ call.config.acceptLossAfterPeriod) =>
      (call.result
         <=> /\ HeldFor > PeriodMs
             /\ \/ HeldFor > PeriodMs + GraceMs
                \/ LossFractionExceeds)

\* a thousand times the amount the Kelly formula gives for the called
\* configuration:
\* availableCapital * ((0.1 * winRate - (1 - winRate)) / 0.1); in cents, with
\* the win rate w in thousandths and the reserve in percent, that is
\* (totalCapital * (100 - reserve) / 100) * (w - 10 * (1000 - w)) / 1000,
\* where the enumerated capitals make the first quotient integral
ThousandKelly ==
    ((call.config.totalCapital * (100 - call.config.reservePercentage)) \div 100)
        * (call.winRate.value - 10 * (1000 - call.winRate.value))

\* C19: with the kelly_criterion strategy calculateOptimalPositionSize
\* returns minPositionSize whenever the win rate is missing or at most 0.5,
\* and otherwise availableCapital times the Kelly fraction clamped into
\* [minPositionSize, maxPositionSize].
C19_KellySizing ==
    (call # None /\ call.op = "calculateOptimalPositionSize" /\ call.done
       /\ call.config.strategy = "kelly_criterion") =>
      LET min == call.config.minPositionSize
          max == call.config.maxPositionSize
      IN  IF call.winRate.kind = "undefined" \/ call.winRate.value <= 500
          THEN call.result = min
          ELSE /\ min <= call.result /\ call.result <= max
               /\ ThousandKelly < min * 1000 => call.result = min
               /\ ThousandKelly > max * 1000 => call.result = max
               /\ (/\ ThousandKelly >= min * 1000
                   /\ ThousandKelly <= max * 1000)
                     => call.result * 1000 = ThousandKelly

\* a win rate of 0.95 sized at the cap, where the formula asks for more
C19_Witness ==
    /\ call # None /\ call.op = "calculateOptimalPositionSize" /\ call.done
    /\ call.config.strategy = "kelly_criterion"
    /\ call.winRate.kind = "number" /\ call.winRate.value = 950
    /\ ThousandKelly > call.config.maxPositionSize * 1000
    /\ call.result = call.config.maxPositionSize

\* C30: for every sizing strategy (equal_weight, risk_parity,
\* kelly_criterion, fixed_amount) and every volatility and win rate,
\* calculateOptimalPositionSize returns a size within
\* [minPositionSize, maxPositionSize] whenever minPositionSize <=
\* maxPositionSize.
C30_SizeWithinBounds ==
    (call # None /\ call.op = "calculateOptimalPositionSize" /\ call.done
       /\ call.config.minPositionSize <= call.config.maxPositionSize) =>
      /\ call.config.minPositionSize <= call.result
      /\ call.result <= call.config.maxPositionSize

(***************************************************************************)
(* Properties of the history store (specification SpecStore)               *)
(***************************************************************************)
\* no store on the key is between its lPush and the end of its lTrim
Trimmed(metric) == \A op \in OpsOn(metric) : op.stage = "lPush"

\* the newest k of the values pushed on a key, oldest first
Newest(metric, k) ==
    LET n == Len(pushed[metric]) IN SubSeq(pushed[metric], n - k + 1, n)

C14_WeakeningOfNewestSamples ==
    (call # None /\ call.op = "isRSIWeakening") =>
      LET p == call.periods
          N == Len(pushed["rsi"])
          recent == IF N >= p THEN Newest("rsi", p) ELSE <<>>
      IN  call.result
            <=> /\ N >= p
                /\ \A i \in 1..(p - 1) : recent[i + 1] < recent[i]
                /\ recent[1] - recent[p] > 5

(***************************************************************************)
(* Properties of the keyed history store (specification SpecKeys)          *)
(***************************************************************************)
\* C21: operations of the history store on one symbol never change or
\* depend on the stored history of another symbol, and the RSI, volatility
\* and price lists of one symbol do not affect each other: under every
\* interleaving each list, and every list read, is the one the operations
\* on its own symbol and metric produce by themselves.
C21_NoCrossSymbolInterference ==
    (redis # None /\ DOMAIN redis.list = Keys) =>
      /\ \A s \in StoredSymbols : \A m \in Metrics :
            redis.list[keyOf(m, s)] = pushed[s][m]
      /\ (call # None /\ call.op = "readHistory") =>
            call.result = Reverse(lRange(pushed[call.symbol][call.metric], call.count - 1))

\* stores of both symbols are between their lPush and their lTrim, the
\* lists of the two symbols differ, and one of them is read
C21_Witness ==
    /\ redis # None /\ DOMAIN redis.list = Keys
    /\ \E a \in pending.ops : \E b \in pending.ops :
         /\ a.symbol = "BTCUSDT" /\ b.symbol = "ETHUSDT"
         /\ a.metric = "rsi" /\ b.metric = "rsi"
         /\ a.stage = "lTrim" /\ b.stage = "lTrim"
         /\ a.value # b.value
    /\ call # None /\ call.op = "readHistory"
    /\ call.symbol = "BTCUSDT" /\ call.metric = "rsi"
    /\ Len(call.result) = 2
    /\ call.result # Reverse(lRange(redis.list[keyOf("rsi", "ETHUSDT")], 1))

(***************************************************************************)
(* Properties of the orchestrator (specification SpecBot)                  *)
(***************************************************************************)
\* the requests call c of executeSmartSell sent, its timer included, in order
Sent(c) == bot.attempts[c]
SentFrom(c, origin) == SelectSeq(Sent(c), LAMBDA a : a.origin = origin)
SentOfType(c, type) == SelectSeq(Sent(c), LAMBDA a : a.type = type)

\* C15: executeSmartSell chooses the order type from the urgency: HIGH
\* submits a market sell immediately; MEDIUM first submits a limit sell
\* and, if that order is still unfilled after the timeout of 2 minutes,
\* cancels it and submits a market sell; LOW submits only a limit sell and
\* never a market sell.
C15_OrderTypeFollowsUrgency ==
    bot # None =>
      \A c \in 1..Len(bot.sells) :
        LET this == bot.sells[c] IN
        /\ Len(Sent(c)) >= 1
        /\ Sent(c)[1].origin = "try"
        /\ this.urgency = "HIGH" => Sent(c)[1].type = "MARKET"
        /\ this.urgency = "MEDIUM" =>
              /\ Sent(c)[1].type = "LIMIT"
              /\ Sent(c)[1].ok <=> this.timer.state # "none"
              /\ this.timer.state # "none" => this.timer.delay = 2 * 60 * 1000
              /\ (this.timer.state = "fired" /\ this.seen = "NEW") =>
                    /\ Len(SentFrom(c, "timer")) >= 1
                    /\ SentFrom(c, "timer")[1].type = "CANCEL"
                    /\ SentFrom(c, "timer")[1].ok =>
                          /\ Len(SentFrom(c, "timer")) = 2
                          /\ SentFrom(c, "timer")[2].type = "MARKET"
              /\ (this.timer.state = "fired" /\ this.seen = "FILLED") =>
                    SentFrom(c, "timer") = <<>>
        /\ this.urgency = "LOW" =>
              /\ SentOfType(c, "MARKET") = <<>>
              /\ Len(Sent(c)) = 1
              /\ Sent(c)[1].type = "LIMIT"

\* a MEDIUM sell whose limit order was still open after two minutes: the
\* order was cancelled and a market sell was executed
C15_Witness ==
    /\ bot # None
    /\ \E c \in 1..Len(bot.sells) :
         /\ bot.sells[c].urgency = "MEDIUM"
         /\ bot.sells[c].timer.state = "fired"
         /\ bot.sells[c].limit = "CANCELED"
         /\ Len(SentFrom(c, "timer")) = 2
         /\ SentFrom(c, "timer")[2].type = "MARKET"
         /\ SentFrom(c, "timer")[2].ok

\* market sells sent after a failure within call c
Fallbacks(c) ==
    SelectSeq(Sent(c), LAMBDA a : a.type = "MARKET" /\ a.origin \in {"inner catch", "catch"})

\* C16: when executing a sell fails the failure is logged and at most one
\* fallback market sell is attempted, and only when the urgency is HIGH; a
\* failed MEDIUM or LOW sell is never re-submitted as a market order.
C16_OnlyHighFallsBack ==
    bot # None =>
      \A c \in 1..Len(bot.sells) :
        /\ Len(Fallbacks(c)) <= 1
        /\ Fallbacks(c) # <<>> => (bot.sells[c].urgency = "HIGH" /\ bot.sells[c].logged)

\* C16 as the code has it: the catch block of executeSmartSell logs and
\* attempts one market sell only for HIGH; a MEDIUM sell whose limit order
\* is rejected is re-submitted once as a market order by the inner handler,
\* which does not log; a LOW sell is never followed by a market order; no
\* call makes more than one fallback attempt.
C16_FallbackByHandler ==
    bot # None =>
      \A c \in 1..Len(bot.sells) :
        LET this == bot.sells[c] IN
        /\ Len(Fallbacks(c)) <= 1
        /\ SentFrom(c, "catch") # <<>> => (this.urgency = "HIGH" /\ this.logged)
        /\ SentFrom(c, "inner catch") # <<>> =>
              /\ this.urgency = "MEDIUM"
              /\ Sent(c)[1].type = "LIMIT" /\ ~Sent(c)[1].ok
        /\ (this.urgency = "HIGH" /\ this.logged) => Len(SentFrom(c, "catch")) = 1
        /\ this.urgency = "LOW" => SentOfType(c, "MARKET") = <<>>

\* a MEDIUM sell whose limit order was rejected and then went out as a
\* market order, and a HIGH sell that failed and was attempted once more
C16_Witness ==
    /\ bot # None
    /\ \E c \in 1..Len(bot.sells) :
         /\ bot.sells[c].urgency = "MEDIUM"
         /\ Len(SentFrom(c, "inner catch")) = 1
    /\ \E c \in 1..Len(bot.sells) :
         /\ bot.sells[c].urgency = "HIGH"
         /\ bot.sells[c].logged
         /\ Len(SentFrom(c, "catch")) = 1

\* the position is tracked in the active-position map
Tracked(orderId) ==
    \E s \in Symbols : \E k \in 1..Len(bot.activePositions[s]) :
      bot.activePositions[s][k].orderId = orderId
\* the exchange executed a sell of the position
SellExecuted(orderId) ==
    \/ \E c \in 1..Len(bot.sells) : \E a \in 1..Len(Sent(c)) :
         /\ Sent(c)[a].side = "SELL" /\ Sent(c)[a].type = "MARKET"
         /\ Sent(c)[a].position = orderId /\ Sent(c)[a].ok
    \/ \E c \in 1..Len(bot.sells) :
         bot.sells[c].position = orderId /\ bot.sells[c].limit = "FILLED"

\* C17: a position is in the active-position map exactly from the
\* execution of its buy order until the execution of its sell order: every
\* executed buy leaves a tracked position and every executed sell removes
\* it.
C17_TrackedWhileHeld ==
    bot # None =>
      \A orderId \in 1..(bot.nextOrderId - 1) :
        Tracked(orderId) <=> (orderId \in bot.held /\ ~SellExecuted(orderId))


\* the sell orders for the position that the exchange accepted and that
\* were not cancelled, as <<call, index in Sent(call)>>
StandingSells(orderId) ==
    { ca \in UNION { { <<c, a>> : a \in 1..Len(Sent(c)) } : c \in 1..Len(bot.sells) } :
        LET c == ca[1]
            request == Sent(c)[ca[2]]
        IN  /\ request.position = orderId
            /\ request.side = "SELL"
            /\ request.type \in {"MARKET", "LIMIT"}
            /\ request.ok
            /\ ~(request.type = "LIMIT" /\ bot.sells[c].limit = "CANCELED") }

\* C24: no position is sold twice: the sell orders submitted for one
\* position that the exchange accepted and that are not cancelled number
\* at most one (each is for the whole quantity of the position), and a
\* position whose sell order was accepted is not offered for sale again by
\* a later call.
C24_NoPositionSoldTwice ==
    bot # None =>
      \A orderId \in 1..(bot.nextOrderId - 1) :
        /\ Cardinality(StandingSells(orderId)) <= 1
        /\ \A c \in 1..Len(bot.sells) : \A later \in (c + 1)..Len(bot.sells) :
              (bot.sells[c].position = orderId /\ bot.sells[later].position = orderId)
                => \A a \in 1..Len(Sent(c)) :
                     ~(Sent(c)[a].ok /\ Sent(c)[a].type \in {"MARKET", "LIMIT"})

(***************************************************************************)
(* Properties of the trading cycle (specification SpecTrader)              *)
(***************************************************************************)
\* the positions open on the exchange: those read at start and those the
\* cycles bought
HeldTotal == overSymbols(bot.held, Len(activeSymbols))

\* C25: after any sequence of trading cycles the total number of active
\* positions never exceeds portfolioSettings.maxConcurrentOrders and the
\* number of positions held for one symbol never exceeds
\* orderManagement.maxOrdersPerSymbol, even when one analysis pass for a
\* symbol yields several BUY strategies.
C25_PositionLimits ==
    /\ HeldTotal <= bot.config.maxConcurrentOrders
    /\ \A s \in TraderSymbols : bot.held[s] <= bot.config.maxOrdersPerSymbol

\* C26: every buy order the orchestrator places passes the risk-budget
\* admission test of the configuration at the moment it is placed: the
\* total risk plus positionSize * stopLossPercentage / 100 does not exceed
\* maxTotalLossAmount, so the bot's canPlaceNewOrder never admits an order
\* that config.canPlaceNewOrder rejects.
C26_BuysPassConfigAdmission ==
    \A buy \in bot.buys :
      canPlaceNewOrder(bot.config, buy.totalRisk, buy.positionSize, buy.activeOrders)

\* C27: once stop() or emergencyStop() has set isRunning to false no buy
\* order is placed, not even by a trading cycle that was in progress when
\* the stop began; and emergencyStop attempts a sell for every position
\* that is active at that time.
C27_NoBuyAfterStop ==
    /\ \A buy \in bot.buys : buy.isRunning
    /\ bot.emergency # None => bot.emergency.active \subseteq bot.emergency.sells

(***************************************************************************)
(* Properties of the position map (specification SpecPositions)            *)
(***************************************************************************)
\* C29: after any sequence of addActivePosition and removeActivePosition
\* followed by saveActivePositions, loadActivePositions into an empty bot
\* restores exactly the current position map; a symbol whose positions were
\* all closed before the save has no position after the reload.
C29_SaveLoadRoundTrip ==
    (bot.saved /\ bot.reloaded # None) => bot.reloaded = bot.activePositions

(***************************************************************************)
(* Properties of the pause (specification SpecPauseFair)                   *)
(***************************************************************************)
\* a cycle returned before evaluateAllPositions with consecutiveLosses at
\* the threshold
PausedByLosses ==
    /\ bot.lastCycle = "paused"
    /\ bot.consecutiveLosses >= bot.config.pauseAfterConsecutiveLosses

RECURSIVE SumOfLast(_)
SumOfLast(k) ==
    IF k = 0 THEN 0
    ELSE call.values[Len(call.values) + 1 - k] + SumOfLast(k - 1)

\* C20: calculateSMA(values, period) returns the arithmetic mean of the last
\* `period` values, and when fewer than `period` values are supplied (and
\* at least one is) it returns the last supplied value, not 0 and not an
\* error.
C20_SimpleMovingAverage ==
    (call # None /\ call.op = "calculateSMA" /\ call.done) =>
      /\ Len(call.values) >= call.period
           => call.result.num * call.period = SumOfLast(call.period) * call.result.den
      /\ (Len(call.values) < call.period /\ Len(call.values) >= 1)
           => call.result.num = call.values[Len(call.values)] * call.result.den

====
